---- MODULE Spec2Model ----
(***************************************************************************)
(* Model lifecycle subsystem: the versioned model registry                 *)
(* (src/models/registry.py), the training orchestrator with its ensemble   *)
(* resolution (src/models/train.py, src/models/hybrid_ensemble.py) and the *)
(* staged training pipeline (src/pipelines/training_pipeline.py).          *)
(***************************************************************************)
EXTENDS Integers, Sequences, FiniteSets, TLC

VARIABLES
    registry,     \* ModelRegistry.registry["models"]: dict name -> dict version -> entry
    index_file,   \* content of <registry_path>/registry.json on disk
    store,        \* artifact directories on disk, by path
    now,          \* the wall clock read by datetime.now()
    faults,       \* the number of disk writes that have failed so far
    ensemble_config,  \* get_config("model_config", "hybrid_ensemble")["models"]
    heap,         \* the model objects constructed so far; a handle is an index
    cache,        \* ModelTrainer.trained_models: dict name -> handle
    tpc,          \* where the trainer is: idle, train_all, ensemble, returned, raised
    todo,         \* train_all_models: the names of models_to_train still to train
    result,       \* train_all_models: its local dict trained_models
    ens,          \* _train_ensemble: base names still to resolve, base_models so far
    terr,         \* the exception the trainer raised last
    train_config, \* TrainingPipeline.config["models_to_train"]
    validation_config, \* DataValidator.config: the checks that are enabled
    ppc,          \* where run() is: idle, or the stage it is about to execute
    mode,         \* who called the stage that is training: run() or the caller directly
    pl,           \* the pipeline's data attributes, each with the load it derives from
    loads,        \* the number of datasets loaded so far
    direct_calls, \* the number of stage methods the caller has called directly
    run_save,     \* the save_models argument of the run() in progress
    run_result,   \* how the last run() ended
    run_heap,     \* the number of model objects there were when run() was last called
    completed,    \* the stages completed since the validate stage was last entered
    registered,   \* the names registered since run() or save_models was last entered
    features,     \* FeatureBuilder.features: the feature names of model_config, in order
    predictor,    \* ModelPredictor.model of the inference pipeline: the loaded classifier
    ipc,          \* the inference pipeline: none, ready, or failed in its constructor
    call,         \* the last call on the inference pipeline and the way it ended
    peer,         \* ModelRegistry.registry["models"] of a second instance over the same root
    compared,     \* get_best_model: the models compared and what the call returned
    objects,      \* the model objects a caller holds: their model and is_trained
    save_dir,     \* the files of the directory models are saved to and loaded from
    answer,       \* the last call on a model object or on a bare ModelPredictor
    response      \* the last response of the API: the endpoint and the status code

regvars == <<registry, index_file, store, now, faults>>

trainvars == <<ensemble_config, heap, cache, tpc, todo, result, ens, terr>>

pipevars == <<train_config, validation_config, ppc, mode, pl, loads, direct_calls, run_save, run_result, run_heap, completed, registered>>

infervars == <<features, predictor, ipc, call>>

modelvars == <<objects, save_dir, answer>>

auxvars == <<compared, modelvars, response>>

vars == <<regvars, trainvars, pipevars, infervars, peer, auxvars>>

-----------------------------------------------------------------------------
(* Bounds of the model *)

\* the wall clock runs from 0 to MaxClock ticks
MaxClock == 2

\* at most MaxFaults writes to disk fail in one behaviour
MaxFaults == 1

\* at most MaxObjects model objects are constructed in one behaviour
MaxObjects == 5

\* at most MaxLoads datasets are loaded in one behaviour
MaxLoads == 1

\* at most MaxDirectCalls stage methods are called from outside run() in one behaviour
MaxDirectCalls == 2

\* at most MaxRuns datasets are loaded by a caller that only calls run()
MaxRuns == 2

\* clock ticks per second: the resolution of the fractional part of a timestamp
TicksPerSecond == 2

\* an input to the inference pipeline has at most MaxRows rows
MaxRows == 2

\* the rows of an input are drawn from MaxSample samples
MaxSample == 2

\* batch_predict is called with a batch size from 1 to MaxBatch
MaxBatch == 3

\* get_best_model compares at most MaxModels models
MaxModels == 3

\* the accuracy of a model is one of 0 to MaxScore
MaxScore == 2

-----------------------------------------------------------------------------
(* Python values *)

None == "None"

\* A Python dict is a sequence of <<key, value>> pairs in insertion order.
EmptyDict == <<>>

DictKeys(d) == {d[i][1] : i \in 1..Len(d)}

DictHas(d, k) == k \in DictKeys(d)

DictIdx(d, k) == CHOOSE i \in 1..Len(d) : d[i][1] = k

DictGet(d, k) == d[DictIdx(d, k)][2]

DictValues(d) == [i \in 1..Len(d) |-> d[i][2]]

\* d[k] = v : an existing key keeps its place, a new key goes last
DictSetAppendAlways(d, k, v) == Append(d, <<k, v>>)

DictSet(d, k, v) ==
    IF DictHas(d, k)
    THEN [d EXCEPT ![DictIdx(d, k)] = <<k, v>>]
    ELSE Append(d, <<k, v>>)

\* str < str : lexicographic comparison of character codes
RECURSIVE StrLess(_, _)
StrLess(a, b) ==
    IF a = <<>> THEN b # <<>>
    ELSE IF b = <<>> THEN FALSE
    ELSE IF Head(a) # Head(b) THEN Head(a) < Head(b)
    ELSE StrLess(Tail(a), Tail(b))

\* the character code of a decimal digit
Digit(d) == 48 + d

\* datetime.isoformat(): the fields down to the second are zero-padded and
\* fixed-width; the fraction is printed only when it is not zero
IsoFormat(t) ==
    LET sec  == t \div TicksPerSecond
        frac == t % TicksPerSecond
    IN  <<Digit(sec \div 10), Digit(sec % 10)>>
            \o (IF frac = 0 THEN <<>> ELSE <<46, Digit(frac)>>)

-----------------------------------------------------------------------------
(* The registry: inputs *)

RegistryRoot == "models"

\* the (model_name, version) pairs the callers use
RegKeys == {<<"m", "1.0">>, <<"m", "1.1">>}

RegNames == {k[1] : k \in RegKeys}

RegVersions == {k[2] : k \in RegKeys}

\* names and versions a caller may ask for, registered or not
QueryNames == RegNames \cup {"x"}

QueryVersions == RegVersions \cup {"latest", "9.9"}

\* metrics and metadata are opaque documents to the registry: None, the empty
\* dict, or a dict with content
EmptyDoc == "{}"

SomeMetrics == "{accuracy}"


StageInputs == {"production"}

\* Path(registry_path) / model_name / version, as str
PathOf(model_name, version) == RegistryRoot \o "/" \o model_name \o "/" \o version

\* the version run() registers under
RunVersion == "1.0"

AllPaths ==
    {PathOf(k[1], k[2]) : k \in RegKeys}
        \cup {PathOf(n, RunVersion) : n \in {"logistic_regression", "gradient_boosting",
                                              "neural_network", "hybrid_ensemble"}}

ModelId(model_name, version) == model_name \o "_v" \o version

Truthy(x) == x # None /\ x # EmptyDoc

OrEmpty(x) == IF Truthy(x) THEN x ELSE EmptyDoc

-----------------------------------------------------------------------------
(* The registry: read operations *)

\* max(versions.items(), key=registered_at)[0] : the first item whose key is
\* not exceeded by a later one
RECURSIVE MaxItemFrom(_, _, _)
MaxItemFrom(versions, best, i) ==
    IF i > Len(versions) THEN best
    ELSE IF StrLess(versions[best][2].registered_at, versions[i][2].registered_at)
         THEN MaxItemFrom(versions, i, i + 1)
         ELSE MaxItemFrom(versions, best, i + 1)

LatestVersionLast(versions) == versions[Len(versions)][1]

LatestVersion(versions) == versions[MaxItemFrom(versions, 1, 2)][1]

GetModelPathNoExistsCheck(reg, st, model_name, version) ==
    IF ~DictHas(reg, model_name) THEN None
    ELSE LET versions == DictGet(reg, model_name) IN
         IF versions = EmptyDict THEN None
         ELSE LET ver == IF version = "latest" THEN LatestVersion(versions) ELSE version IN
              IF ~DictHas(versions, ver) THEN None
              ELSE DictGet(versions, ver).path

GetModelPath(reg, st, model_name, version) ==
    IF ~DictHas(reg, model_name) THEN None
    ELSE LET versions == DictGet(reg, model_name) IN
         IF versions = EmptyDict THEN None
         ELSE LET ver == IF version = "latest" THEN LatestVersion(versions) ELSE version IN
              IF ~DictHas(versions, ver) THEN None
              ELSE LET model_path == DictGet(versions, ver).path IN
                   IF st[model_path].dir = "none" THEN None ELSE model_path

\* the outcome of a query: an entry, None, or a raised exception
ReturnedEntry(e) == [raised |-> "no", none |-> FALSE, entry |-> <<e>>]

ReturnedNone == [raised |-> "no", none |-> TRUE, entry |-> <<>>]

RaisedError(e) == [raised |-> e, none |-> FALSE, entry |-> <<>>]

GetModelInfo(reg, model_name, version) ==
    IF ~DictHas(reg, model_name) THEN ReturnedNone
    ELSE LET versions == DictGet(reg, model_name) IN
         IF version = "latest" /\ versions = EmptyDict THEN RaisedError("ValueError")
         ELSE LET ver == IF version = "latest" THEN LatestVersion(versions) ELSE version IN
              IF DictHas(versions, ver) THEN ReturnedEntry(DictGet(versions, ver))
              ELSE ReturnedNone

RECURSIVE Flatten(_)
Flatten(seqs) == IF seqs = <<>> THEN <<>> ELSE Head(seqs) \o Flatten(Tail(seqs))

ListModels(reg, model_name) ==
    IF model_name # None
    THEN IF DictHas(reg, model_name) THEN DictValues(DictGet(reg, model_name)) ELSE <<>>
    ELSE Flatten([i \in 1..Len(reg) |-> DictValues(reg[i][2])])

-----------------------------------------------------------------------------
(* The registry: construction and the files it writes *)

\* registry.json: absent, a readable document, or a truncated one left by a
\* write that failed after open(filepath, "w")
NoFile == [state |-> "absent", doc |-> EmptyDict]

CorruptFile == [state |-> "corrupt", doc |-> EmptyDict]

FileOf(reg) == [state |-> "ok", doc |-> reg]

\* _load_registry
LoadRegistry(file) == IF file.state = "absent" THEN EmptyDict ELSE file.doc

\* index documents found on disk at construction: none, or one that names a
\* model without versions (the case get_model_path guards)
InitialIndexFiles == {NoFile, FileOf(<<<<"m", EmptyDict>>>>)}

NoDir == [dir |-> "none", metrics_file |-> FALSE]

\* the points at which a write to disk can fail
RegisterFailures == {"no", "save", "metrics", "index_open", "index_dump"}

SaveFailures == {"no", "index_open", "index_dump"}

\* _save_registry writing the index only where there is none yet
SaveRegistryIfAbsent(reg, file, fail) ==
    CASE fail = "index_open" -> file
      [] fail = "index_dump" -> CorruptFile
      [] OTHER -> IF file.state = "absent" THEN FileOf(reg) ELSE file

\* _save_registry: save_json(self.registry, registry_file)
SaveRegistry(reg, file, fail) ==
    CASE fail = "index_open" -> file
      [] fail = "index_dump" -> CorruptFile
      [] OTHER -> FileOf(reg)

\* BaseModel.save updates the caller's metadata dict in place
ModelKeys == "+{model_name,params,is_trained}"

MetadataAfterSave(metadata) == IF metadata = None THEN None ELSE metadata \o ModelKeys

RunMetadata == "{training_config,feature_count,training_samples,test_samples}"

\* the (metrics, metadata) arguments the callers pass
RegisterInputs == {<<None, None>>, <<EmptyDoc, None>>, <<SomeMetrics, RunMetadata>>}

NewEntry(model_name, version, metrics, metadata, t) ==
    [ model_id      |-> ModelId(model_name, version),
      model_name    |-> model_name,
      version       |-> version,
      path          |-> PathOf(model_name, version),
      registered_at |-> IsoFormat(t),
      metrics       |-> OrEmpty(metrics),
      metadata      |-> OrEmpty(MetadataAfterSave(metadata)),
      status        |-> "active",
      stage         |-> "none" ]

VersionsOf(reg, model_name) ==
    IF DictHas(reg, model_name) THEN DictGet(reg, model_name) ELSE EmptyDict

\* self.registry["models"][model_name][version] = entry
PutEntry(reg, model_name, version, entry) ==
    DictSet(reg, model_name, DictSet(VersionsOf(reg, model_name), version, entry))

\* register_model: what it leaves in memory and on disk, and how it ends
RegisterModel(reg, file, st, t, model_name, version, metrics, metadata, fail) ==
    LET p     == PathOf(model_name, version)
        entry == NewEntry(model_name, version, metrics, metadata, t)
        reg2  == PutEntry(reg, model_name, version, entry)
        saved == [st EXCEPT ![p].dir = "complete"]
    IN  IF fail = "save"
        THEN [registry |-> reg, index_file |-> file,
              store |-> [st EXCEPT ![p].dir = "incomplete"],
              raised |-> "save", ret |-> None]
        ELSE IF Truthy(metrics) /\ fail = "metrics"
        THEN [registry |-> reg2, index_file |-> file, store |-> saved,
              raised |-> "metrics", ret |-> None]
        ELSE LET st2 == IF Truthy(metrics)
                        THEN [saved EXCEPT ![p].metrics_file = TRUE] ELSE saved
             IN  IF fail \in {"index_open", "index_dump"}
                 THEN [registry |-> reg2, index_file |-> SaveRegistry(reg2, file, fail),
                       store |-> st2, raised |-> fail, ret |-> None]
                 ELSE [registry |-> reg2, index_file |-> FileOf(reg2), store |-> st2,
                       raised |-> "no", ret |-> ModelId(model_name, version)]

HasEntry(reg, model_name, version) ==
    DictHas(reg, model_name) /\ DictHas(DictGet(reg, model_name), version)

EntryOf(reg, model_name, version) == DictGet(DictGet(reg, model_name), version)

\* del d[k]
DictDel(d, k) == SelectSeq(d, LAMBDA kv : kv[1] # k)

DeleteModelHard(reg, file, model_name, version, fail) ==
    IF ~HasEntry(reg, model_name, version)
    THEN [registry |-> reg, index_file |-> file, raised |-> "no", ret |-> "False"]
    ELSE LET reg2 == DictSet(reg, model_name, DictDel(DictGet(reg, model_name), version))
         IN  [registry |-> reg2, index_file |-> SaveRegistry(reg2, file, fail),
              raised |-> fail, ret |-> IF fail = "no" THEN "True" ELSE None]

\* delete_model marking the entry in memory and leaving the index on disk alone
DeleteModelUnsaved(reg, file, model_name, version, fail) ==
    IF ~HasEntry(reg, model_name, version)
    THEN [registry |-> reg, index_file |-> file, raised |-> "no", ret |-> "False"]
    ELSE LET e == EntryOf(reg, model_name, version)
         IN  [registry |-> PutEntry(reg, model_name, version, [e EXCEPT !.status = "deleted"]),
              index_file |-> file, raised |-> "no", ret |-> "True"]

\* delete_model
DeleteModel(reg, file, model_name, version, fail) ==
    IF ~HasEntry(reg, model_name, version)
    THEN [registry |-> reg, index_file |-> file, raised |-> "no", ret |-> "False"]
    ELSE LET e    == EntryOf(reg, model_name, version)
             reg2 == PutEntry(reg, model_name, version, [e EXCEPT !.status = "deleted"])
         IN  [registry |-> reg2, index_file |-> SaveRegistry(reg2, file, fail),
              raised |-> fail, ret |-> IF fail = "no" THEN "True" ELSE None]

\* promote_model taking the stage away from the other versions of the name
PromoteModelExclusive(reg, file, model_name, version, stage, fail) ==
    IF ~HasEntry(reg, model_name, version)
    THEN [registry |-> reg, index_file |-> file, raised |-> "no", ret |-> "False"]
    ELSE LET versions == DictGet(reg, model_name)
             reg2 == DictSet(reg, model_name,
                        [i \in 1..Len(versions) |->
                            <<versions[i][1],
                              IF versions[i][1] = version
                              THEN [versions[i][2] EXCEPT !.stage = stage]
                              ELSE IF versions[i][2].stage = stage
                              THEN [versions[i][2] EXCEPT !.stage = "none"]
                              ELSE versions[i][2]>>])
         IN  [registry |-> reg2, index_file |-> SaveRegistry(reg2, file, fail),
              raised |-> fail, ret |-> IF fail = "no" THEN "True" ELSE None]

\* promote_model
PromoteModel(reg, file, model_name, version, stage, fail) ==
    IF ~HasEntry(reg, model_name, version)
    THEN [registry |-> reg, index_file |-> file, raised |-> "no", ret |-> "False"]
    ELSE LET e    == EntryOf(reg, model_name, version)
             reg2 == PutEntry(reg, model_name, version, [e EXCEPT !.stage = stage])
         IN  [registry |-> reg2, index_file |-> SaveRegistry(reg2, file, fail),
              raised |-> fail, ret |-> IF fail = "no" THEN "True" ELSE None]

-----------------------------------------------------------------------------
(* The registry as a state machine *)

RegistryInit ==
    /\ index_file \in InitialIndexFiles
    /\ registry = LoadRegistry(index_file)
    /\ store = [p \in AllPaths |-> NoDir]
    /\ now = 0
    /\ faults = 0

\* no trainer is at work
TrainerIdle ==
    /\ ensemble_config = <<>>
    /\ heap = <<>>
    /\ cache = EmptyDict
    /\ tpc = "idle"
    /\ todo = <<>>
    /\ result = EmptyDict
    /\ ens = [names |-> <<>>, base_models |-> <<>>]
    /\ terr = "no"

\* TrainingPipeline.__init__: no data, no models, no results
PipelineNew ==
    /\ ppc = "idle"
    /\ mode = "none"
    /\ pl = [raw |-> 0, pre |-> 0, split |-> 0, feat |-> 0, test |-> 0,
             has_models |-> FALSE, models |-> EmptyDict,
             has_evaluation |-> FALSE, evaluation |-> EmptyDict,
             validation |-> EmptyDict]
    /\ loads = 0
    /\ direct_calls = 0
    /\ run_save = FALSE
    /\ run_result = [state |-> "none", stage |-> "none"]
    /\ run_heap = 0
    /\ completed = {}
    /\ registered = <<>>

\* no pipeline is at work
PipelineIdle == train_config = <<>> /\ validation_config = {} /\ PipelineNew

\* the result slot of an inference pipeline that has not been called
NoCall == [op |-> "none", state |-> "none", data |-> <<>>]

\* no inference pipeline has been constructed
InferenceNone ==
    /\ features = <<>>
    /\ predictor = [name |-> None, proba |-> <<>>, label |-> <<>>]
    /\ ipc = "none"
    /\ call = NoCall

\* no second registry instance is at work, no models are being compared
\* the slot of the last call on a model object, before any call
NoAnswer == [op |-> "none", state |-> "none"]

\* no caller holds a model object of its own
\* the API has answered no request
NoResponse == [endpoint |-> "none", status_code |-> 0]

ModelsNone ==
    /\ objects = <<>>
    /\ save_dir = EmptyDict
    /\ answer = NoAnswer
    /\ response = NoResponse

PeerAbsent == peer = EmptyDict /\ compared = [state |-> "none"] /\ ModelsNone

RegInit == RegistryInit /\ TrainerIdle /\ PipelineIdle /\ InferenceNone /\ PeerAbsent

\* time passes between calls
Tick ==
    /\ now < MaxClock
    /\ now' = now + 1
    /\ UNCHANGED <<registry, index_file, store, faults, trainvars, pipevars, infervars, peer, auxvars>>

RegisterCall(model_name, version, metrics, metadata, fail) ==
    LET r == RegisterModel(registry, index_file, store, now,
                           model_name, version, metrics, metadata, fail)
    IN  /\ fail = "metrics" => Truthy(metrics)
        /\ registry' = r.registry
        /\ index_file' = r.index_file
        /\ store' = r.store
        /\ faults' = IF fail = "no" THEN faults ELSE faults + 1
        /\ UNCHANGED <<now, trainvars, pipevars, infervars, peer, auxvars>>

\* register_model, every write succeeding
Register ==
    \E k \in RegKeys, in \in RegisterInputs :
        RegisterCall(k[1], k[2], in[1], in[2], "no")

\* register_model, one of its writes failing
RegisterFault ==
    \E k \in RegKeys, in \in RegisterInputs, fail \in RegisterFailures \ {"no"} :
        /\ faults < MaxFaults
        /\ RegisterCall(k[1], k[2], in[1], in[2], fail)

DeleteCall(model_name, version) ==
    LET r == DeleteModel(registry, index_file, model_name, version, "no")
    IN  /\ registry' = r.registry
        /\ index_file' = r.index_file
        /\ UNCHANGED <<store, now, faults, trainvars, pipevars, infervars, peer, auxvars>>

Delete == \E name \in QueryNames, version \in RegVersions : DeleteCall(name, version)

PromoteCall(model_name, version, stage) ==
    LET r == PromoteModel(registry, index_file, model_name, version, stage, "no")
    IN  /\ registry' = r.registry
        /\ index_file' = r.index_file
        /\ UNCHANGED <<store, now, faults, trainvars, pipevars, infervars, peer, auxvars>>

Promote ==
    \E name \in QueryNames, version \in RegVersions, stage \in StageInputs :
        PromoteCall(name, version, stage)

\* an artifact directory is removed from outside: the entry that names it is stale
RemoveDir ==
    \E p \in AllPaths :
        /\ store[p].dir # "none"
        /\ store' = [store EXCEPT ![p] = NoDir]
        /\ UNCHANGED <<registry, index_file, now, faults, trainvars, pipevars, infervars, peer, auxvars>>

RegNext == Tick \/ Register \/ Delete \/ Promote \/ RemoveDir

\* a read of the registry and the way it ended
ReadRecord(op, raised) ==
    [op |-> op, state |-> IF raised = "no" THEN "returned" ELSE "raised"]

ReadCall(op, raised) ==
    /\ answer' = ReadRecord(op, raised)
    /\ UNCHANGED <<regvars, trainvars, pipevars, infervars, peer, compared, objects,
                   save_dir, response>>

\* get_model_path, get_model_info, list_models
Read ==
    \E model_name \in QueryNames, version \in QueryVersions :
        \/ ReadCall("get_model_path", "no")
        \/ ReadCall("get_model_info", GetModelInfo(registry, model_name, version).raised)
        \/ ReadCall("list_models", "no")

SyncNext == Register \/ Delete \/ Promote \/ Read

\* one registry instance, the only writer of its root, written and read
SyncSpec == RegInit /\ [][SyncNext]_vars

\* the registry with every write to disk succeeding
RegSpec == RegInit /\ [][RegNext]_vars

FaultNext == Tick \/ Register \/ RegisterFault

\* registrations of which some fail part-way
FaultSpec == RegInit /\ [][FaultNext]_vars

-----------------------------------------------------------------------------
(* The trainer: ModelTrainer and HybridEnsembleModel *)

\* the keys of ModelTrainer.MODEL_REGISTRY
KnownModels ==
    {"logistic_regression", "gradient_boosting", "neural_network", "hybrid_ensemble"}

DefaultBaseModels == <<"logistic_regression", "gradient_boosting", "neural_network">>

\* the lists of base-model names the configuration may hold
EnsembleConfigs ==
    { <<>>,
      <<"logistic_regression", "gradient_boosting">>,
      <<"gradient_boosting", "logistic_regression", "gradient_boosting">>,
      <<"logistic_regression", "svm">> }

\* the lists of names train_all_models is called with
TrainLists ==
    { <<"hybrid_ensemble">>,
      <<"logistic_regression", "hybrid_ensemble">>,
      <<"hybrid_ensemble", "gradient_boosting">>,
      <<"svm">> }

\* a fit of the underlying classifier returns or raises
FitOutcomes == {"ok", "raise"}

\* a model object: BaseModel.__init__ and what fit leaves in it
NewObject(model_name, base_models) ==
    [model_name |-> model_name, base_models |-> base_models,
     fit_calls |-> 0, is_trained |-> FALSE]

\* <Model>.fit: self.model.fit(X, y); self.is_trained = True
FitObject(obj, outcome) ==
    [obj EXCEPT !.fit_calls = @ + 1, !.is_trained = (outcome = "ok")]

TrainModelCacheBeforeFit(c, hp, model_name, outcome) ==
    IF model_name \notin KnownModels
    THEN [cache |-> c, heap |-> hp, raised |-> "ValueError", ret |-> 0]
    ELSE LET h   == Len(hp) + 1
             obj == FitObject(NewObject(model_name, <<>>), outcome)
         IN  [cache |-> DictSet(c, model_name, h), heap |-> Append(hp, obj),
              raised |-> IF outcome = "ok" THEN "no" ELSE "fit",
              ret |-> IF outcome = "ok" THEN h ELSE 0]

\* train_model for a name other than hybrid_ensemble
TrainModel(c, hp, model_name, outcome) ==
    IF model_name \notin KnownModels
    THEN [cache |-> c, heap |-> hp, raised |-> "ValueError", ret |-> 0]
    ELSE LET h   == Len(hp) + 1
             obj == FitObject(NewObject(model_name, <<>>), outcome)
         IN  IF outcome = "ok"
             THEN [cache |-> DictSet(c, model_name, h), heap |-> Append(hp, obj),
                   raised |-> "no", ret |-> h]
             ELSE [cache |-> c, heap |-> Append(hp, obj), raised |-> "fit", ret |-> 0]

EnsembleNamesNoDefault(config) == config

\* _train_ensemble: the configured names, or the default list when there are none
EnsembleNames(config) == IF config = <<>> THEN DefaultBaseModels ELSE config

ResolveBaseSwallow(c, hp, model_name, outcome) ==
    IF DictHas(c, model_name)
    THEN [cache |-> c, heap |-> hp, raised |-> "no", ret |-> DictGet(c, model_name)]
    ELSE LET r == TrainModel(c, hp, model_name, outcome) IN
         IF r.raised = "fit" THEN [r EXCEPT !.raised = "no", !.ret = Len(r.heap)] ELSE r

ResolveBaseAlwaysTrain(c, hp, model_name, outcome) ==
    TrainModel(c, hp, model_name, outcome)

\* _train_ensemble, one turn of its loop: the cached model, or a fresh one
ResolveBase(c, hp, model_name, outcome) ==
    IF DictHas(c, model_name)
    THEN [cache |-> c, heap |-> hp, raised |-> "no", ret |-> DictGet(c, model_name)]
    ELSE TrainModel(c, hp, model_name, outcome)

\* HybridEnsembleModel(base_models).fit
EnsembleFit(hp, base_models, outcome) ==
    LET obj == NewObject("hybrid_ensemble", base_models) IN
    IF base_models = <<>>
    THEN [heap |-> Append(hp, obj), raised |-> "ValueError", ret |-> 0]
    ELSE [heap |-> Append(hp, FitObject(obj, outcome)),
          raised |-> IF outcome = "ok" THEN "no" ELSE "fit",
          ret |-> IF outcome = "ok" THEN Len(hp) + 1 ELSE 0]

\* whether a call that resolves model_name constructs a model object
Constructs(c, model_name) == model_name \in KnownModels /\ ~DictHas(c, model_name)

\* train_all_models(X, y, models_to_train) is called
StartTrainAll(models_to_train) ==
    /\ tpc = "idle"
    /\ tpc' = "train_all"
    /\ todo' = models_to_train
    /\ result' = EmptyDict
    /\ terr' = "no"
    /\ UNCHANGED <<ensemble_config, heap, cache, ens>>

\* train_all_models: train_model for the next name, a single model
TrainNext(outcome) ==
    /\ tpc = "train_all" /\ todo # <<>> /\ Head(todo) # "hybrid_ensemble"
    /\ Head(todo) \in KnownModels => Len(heap) < MaxObjects
    /\ LET r == TrainModel(cache, heap, Head(todo), outcome) IN
           /\ heap' = r.heap
           /\ cache' = r.cache
           /\ IF r.raised = "no"
              THEN /\ result' = DictSet(result, Head(todo), r.ret)
                   /\ todo' = Tail(todo)
                   /\ UNCHANGED <<tpc, terr>>
              ELSE /\ tpc' = "raised"
                   /\ terr' = r.raised
                   /\ UNCHANGED <<todo, result>>
    /\ UNCHANGED <<ensemble_config, ens>>

\* train_all_models: train_model("hybrid_ensemble") enters _train_ensemble
EnsembleBegin ==
    /\ tpc = "train_all" /\ todo # <<>> /\ Head(todo) = "hybrid_ensemble"
    /\ tpc' = "ensemble"
    /\ ens' = [names |-> EnsembleNames(ensemble_config), base_models |-> <<>>]
    /\ UNCHANGED <<ensemble_config, heap, cache, todo, result, terr>>

\* _train_ensemble: the next base-model name
EnsembleResolve(outcome) ==
    /\ tpc = "ensemble" /\ ens.names # <<>>
    /\ Constructs(cache, Head(ens.names)) => Len(heap) < MaxObjects
    /\ LET r == ResolveBase(cache, heap, Head(ens.names), outcome) IN
           /\ heap' = r.heap
           /\ cache' = r.cache
           /\ IF r.raised = "no"
              THEN /\ ens' = [names |-> Tail(ens.names),
                              base_models |-> Append(ens.base_models, r.ret)]
                   /\ UNCHANGED <<tpc, terr>>
              ELSE /\ tpc' = "raised"
                   /\ terr' = r.raised
                   /\ UNCHANGED ens
    /\ UNCHANGED <<ensemble_config, todo, result>>

\* _train_ensemble: every name is resolved; the ensemble is built and fitted
EnsembleTrain(outcome) ==
    /\ tpc = "ensemble" /\ ens.names = <<>>
    /\ Len(heap) < MaxObjects
    /\ LET r == EnsembleFit(heap, ens.base_models, outcome) IN
           /\ heap' = r.heap
           /\ IF r.raised = "no"
              THEN /\ cache' = DictSet(cache, "hybrid_ensemble", r.ret)
                   /\ result' = DictSet(result, "hybrid_ensemble", r.ret)
                   /\ todo' = Tail(todo)
                   /\ tpc' = "train_all"
                   /\ UNCHANGED terr
              ELSE /\ tpc' = "raised"
                   /\ terr' = r.raised
                   /\ UNCHANGED <<cache, result, todo>>
    /\ UNCHANGED <<ensemble_config, ens>>

\* train_all_models returns its dict
TrainAllReturn ==
    /\ tpc = "train_all" /\ todo = <<>>
    /\ tpc' = "returned"
    /\ UNCHANGED <<ensemble_config, heap, cache, todo, result, ens, terr>>

\* a caller builds a HybridEnsembleModel without base models and fits it
FitBareEnsemble ==
    /\ tpc = "idle"
    /\ Len(heap) < MaxObjects
    /\ LET r == EnsembleFit(heap, <<>>, "ok") IN
           /\ heap' = r.heap
           /\ terr' = r.raised
    /\ UNCHANGED <<ensemble_config, cache, tpc, todo, result, ens>>

\* the caller of train_all_models has its result or its exception
TrainerDone ==
    /\ tpc \in {"returned", "raised"}
    /\ tpc' = "idle"
    /\ UNCHANGED <<ensemble_config, heap, cache, todo, result, ens, terr>>

RegistryUnused ==
    /\ registry = EmptyDict
    /\ index_file = NoFile
    /\ store = [p \in AllPaths |-> NoDir]
    /\ now = 0
    /\ faults = 0

TrainInit ==
    /\ RegistryUnused
    /\ PipelineIdle
    /\ InferenceNone
    /\ PeerAbsent
    /\ ensemble_config \in EnsembleConfigs
    /\ heap = <<>>
    /\ cache = EmptyDict
    /\ tpc = "idle"
    /\ todo = <<>>
    /\ result = EmptyDict
    /\ ens = [names |-> <<>>, base_models |-> <<>>]
    /\ terr = "no"

CallTrainAll == \E l \in TrainLists : StartTrainAll(l) /\ UNCHANGED <<regvars, pipevars, infervars, peer, auxvars>>

TrainSingle == \E o \in FitOutcomes : TrainNext(o) /\ UNCHANGED <<regvars, pipevars, infervars, peer, auxvars>>

BeginEnsemble == EnsembleBegin /\ UNCHANGED <<regvars, pipevars, infervars, peer, auxvars>>

ResolveEnsemble == \E o \in FitOutcomes : EnsembleResolve(o) /\ UNCHANGED <<regvars, pipevars, infervars, peer, auxvars>>

TrainEnsemble == \E o \in FitOutcomes : EnsembleTrain(o) /\ UNCHANGED <<regvars, pipevars, infervars, peer, auxvars>>

ReturnTrainAll == TrainAllReturn /\ UNCHANGED <<regvars, pipevars, infervars, peer, auxvars>>

BareEnsemble == FitBareEnsemble /\ UNCHANGED <<regvars, pipevars, infervars, peer, auxvars>>

DoneTrainer == TrainerDone /\ UNCHANGED <<regvars, pipevars, infervars, peer, auxvars>>

TrainNextStep ==
    \/ CallTrainAll
    \/ TrainSingle
    \/ BeginEnsemble
    \/ ResolveEnsemble
    \/ TrainEnsemble
    \/ ReturnTrainAll
    \/ BareEnsemble
    \/ DoneTrainer

\* the trainer called directly, time and again, on one ModelTrainer
TrainSpec == TrainInit /\ [][TrainNextStep]_vars

-----------------------------------------------------------------------------
(* The pipeline: TrainingPipeline *)

\* config["models_to_train"] of the training configuration
TrainConfigs ==
    { <<"logistic_regression", "hybrid_ensemble">>,
      <<"hybrid_ensemble">> }

\* the base-model lists the pipeline's configuration may hold
PipelineEnsembleConfigs ==
    { <<"logistic_regression", "gradient_boosting">>,
      <<"logistic_regression", "svm">> }

\* the models_to_train argument of a call of train_models: None, or a list
TrainArguments == {None, "[]", "[gradient_boosting]"}

\* train_models: the list it hands to train_all_models
ModelsToTrain(argument, config) ==
    CASE argument = None -> config
      [] argument = "[]" -> <<>>
      [] OTHER -> <<"gradient_boosting">>

\* the stages of run(), in the order of its statements
Stages == <<"validate", "preprocess", "split", "features", "train", "evaluate", "register">>

StageIndex(stage) == CHOOSE i \in 1..Len(Stages) : Stages[i] = stage

\* run(): the statement after a stage that returned
NextStage(stage, save) ==
    CASE stage = "evaluate" -> IF save THEN "register" ELSE "best"
      [] stage = "register" -> "best"
      [] OTHER -> Stages[StageIndex(stage) + 1]

\* a stage method is entered: by run() at its turn, or by the caller directly
StageGuard(stage, direct) ==
    /\ IF direct
       THEN ppc = "idle" /\ tpc = "idle" /\ direct_calls < MaxDirectCalls
       ELSE ppc = stage /\ mode = "run"
    /\ direct_calls' = IF direct THEN direct_calls + 1 ELSE direct_calls

\* a stage method returns or raises: run() goes on, or run()'s except clause re-raises
StageEndSwallow(stage, direct, raised) ==
    /\ ppc' = IF direct THEN "idle" ELSE NextStage(stage, run_save)
    /\ mode' = IF direct THEN "none" ELSE mode
    /\ run_result' = run_result
    /\ completed' = IF raised THEN completed ELSE completed \cup {stage}

StageEnd(stage, direct, raised) ==
    /\ ppc' = IF direct \/ raised THEN "idle" ELSE NextStage(stage, run_save)
    /\ mode' = IF direct \/ raised THEN "none" ELSE mode
    /\ run_result' = IF ~direct /\ raised
                     THEN [state |-> "raised", stage |-> stage]
                     ELSE run_result
    /\ completed' = IF raised THEN completed ELSE completed \cup {stage}

\* run(data_filepath, save_splits, save_models, version) is called
RunCall(save) ==
    /\ ppc = "idle" /\ tpc = "idle"
    /\ ppc' = "validate"
    /\ mode' = "run"
    /\ run_save' = save
    /\ run_result' = [state |-> "running", stage |-> "validate"]
    /\ run_heap' = Len(heap)
    /\ registered' = <<>>
    /\ UNCHANGED <<auxvars, infervars, peer, train_config, validation_config, pl, loads, direct_calls, completed, regvars, trainvars>>

\* run(), called before the caller calls any stage method directly
RunPipeline == direct_calls = 0 /\ loads < MaxLoads /\ \E save \in BOOLEAN : RunCall(save)

\* the checks of DataValidator.validate, in the order of its results dict
CheckNames == <<"sample_count", "missing_values", "duplicates", "target_balance">>

\* the validation configurations: every check enabled (the default), or one disabled
ValidationConfigs == {{"sample_count", "missing_values", "duplicates", "target_balance"},
                      {"sample_count", "missing_values", "target_balance"}}

\* the datasets load_raw_data may return, each known by the checks it fails
Datasets == {{}, {"duplicates"}, {"sample_count", "target_balance"}}

\* the result dict of one check
CheckResult(passed) == [kind |-> "dict", passed |-> passed]

\* a bool stored in the results dict
BoolValue(b) == [kind |-> "bool", passed |-> b]

\* validate: the results of the enabled checks, the None results removed
EnabledResults(enabled, failing) ==
    LET keep == SelectSeq(CheckNames, LAMBDA c : c \in enabled)
    IN  [i \in 1..Len(keep) |-> <<keep[i], CheckResult(keep[i] \notin failing)>>]

RECURSIVE FailedChecks(_, _)
\* validate: [k for k, v in results.items() if not v.get("passed", False)] from item i on
FailedChecks(results, i) ==
    IF i > Len(results) THEN [raised |-> "no", ret |-> <<>>]
    ELSE IF results[i][2].kind # "dict" THEN [raised |-> "AttributeError", ret |-> <<>>]
    ELSE LET rest == FailedChecks(results, i + 1) IN
         IF rest.raised # "no" THEN rest
         ELSE [raised |-> "no",
               ret |-> IF results[i][2].passed THEN rest.ret
                       ELSE <<results[i][1]>> \o rest.ret]

\* DataValidator.validate on a dataset that fails the checks of failing
Validate(enabled, failing) ==
    LET checks     == EnabledResults(enabled, failing)
        all_passed == \A i \in 1..Len(checks) : checks[i][2].passed
        results    == DictSet(checks, "overall_passed", BoolValue(all_passed))
    IN  IF all_passed
        THEN [raised |-> "no", ret |-> results]
        ELSE [raised |-> FailedChecks(results, 1).raised, ret |-> results]

\* load_and_validate_data(filepath): load_raw_data returns the dataset or raises
LoadAndValidateCall(direct, outcome, dataset) ==
    LET v      == Validate(validation_config, dataset)
        raised == outcome = "raise" \/ v.raised # "no"
    IN  /\ StageGuard("validate", direct)
        /\ ppc' = IF direct \/ raised THEN "idle" ELSE NextStage("validate", run_save)
        /\ mode' = IF direct \/ raised THEN "none" ELSE mode
        /\ run_result' = IF ~direct /\ raised
                         THEN [state |-> "raised", stage |-> "validate"]
                         ELSE run_result
        /\ completed' = IF raised THEN {} ELSE {"validate"}
        /\ IF raised
           THEN UNCHANGED <<loads, pl>>
           ELSE /\ loads' = loads + 1
                /\ pl' = [pl EXCEPT !.raw = loads + 1, !.validation = v.ret]
        /\ UNCHANGED <<auxvars, infervars, peer, train_config, validation_config, run_heap, run_save, registered, regvars, trainvars>>

\* load_and_validate_data, by run() or by the caller
LoadAndValidateData ==
    \E direct \in BOOLEAN, outcome \in {"ok", "raise"}, dataset \in Datasets :
        loads < MaxLoads /\ LoadAndValidateCall(direct, outcome, dataset)

\* what a stage's own work does: it returns, or it raises
StageOutcomes == {"ok", "raise"}

\* preprocess_data: self.raw_data is read, self.preprocessed_data is set
PreprocessCall(direct, outcome) ==
    LET raised == pl.raw = 0 \/ outcome = "raise" IN
    /\ StageGuard("preprocess", direct)
    /\ StageEnd("preprocess", direct, raised)
    /\ pl' = IF raised THEN pl ELSE [pl EXCEPT !.pre = pl.raw]
    /\ UNCHANGED <<auxvars, infervars, peer, train_config, validation_config, run_heap, loads, run_save, registered, regvars, trainvars>>

PreprocessData == \E direct \in BOOLEAN, outcome \in StageOutcomes : PreprocessCall(direct, outcome)

\* split_dataset: self.preprocessed_data is read, the train and test sets are set
SplitCall(direct, outcome) ==
    LET raised == pl.pre = 0 \/ outcome = "raise" IN
    /\ StageGuard("split", direct)
    /\ StageEnd("split", direct, raised)
    /\ pl' = IF raised THEN pl ELSE [pl EXCEPT !.split = pl.pre]
    /\ UNCHANGED <<auxvars, infervars, peer, train_config, validation_config, run_heap, loads, run_save, registered, regvars, trainvars>>

SplitDataset == \E direct \in BOOLEAN, outcome \in StageOutcomes : SplitCall(direct, outcome)

\* get_X_y of the train set raises, or get_X_y of the test set does, or none
FeatureOutcomes == {"ok", "raise", "raise_test"}

\* prepare_features: get_X_y of the train set, then of the test set, which
\* __init__ set to None
FeaturesCall(direct, outcome) ==
    LET raised == pl.split = 0 \/ outcome # "ok" IN
    /\ StageGuard("features", direct)
    /\ StageEnd("features", direct, raised)
    /\ pl' = IF pl.split = 0 \/ outcome = "raise" THEN pl
             ELSE IF outcome = "raise_test" THEN [pl EXCEPT !.feat = pl.split]
             ELSE [pl EXCEPT !.feat = pl.split, !.test = pl.split]
    /\ UNCHANGED <<auxvars, infervars, peer, train_config, validation_config, run_heap, loads, run_save, registered, regvars, trainvars>>

PrepareFeatures == \E direct \in BOOLEAN, outcome \in FeatureOutcomes : FeaturesCall(direct, outcome)

\* train_models: self.X_train is read and train_all_models is called
TrainModelsCall(direct, argument) ==
    /\ StageGuard("train", direct)
    /\ ~direct => argument = None
    /\ IF pl.feat = 0
       THEN /\ StageEnd("train", direct, TRUE)
            /\ UNCHANGED trainvars
       ELSE /\ StartTrainAll(ModelsToTrain(argument, train_config))
            /\ ppc' = "training"
            /\ mode' = IF direct THEN "direct" ELSE "run"
            /\ UNCHANGED <<run_result, completed>>
    /\ UNCHANGED <<auxvars, infervars, peer, train_config, validation_config, run_heap, pl, loads, run_save, registered, regvars>>

\* train_models, by run() or by the caller
TrainModels ==
    \E direct \in BOOLEAN, argument \in TrainArguments : TrainModelsCall(direct, argument)

\* train_models: train_all_models returned, self.trained_models is set
TrainModelsReturn ==
    /\ ppc = "training" /\ tpc = "returned"
    /\ StageEnd("train", mode = "direct", FALSE)
    /\ pl' = [pl EXCEPT !.has_models = TRUE, !.models = result]
    /\ tpc' = "idle"
    /\ UNCHANGED <<ensemble_config, heap, cache, todo, result, ens, terr>>
    /\ UNCHANGED <<auxvars, infervars, peer, train_config, validation_config, run_heap, loads, direct_calls, run_save, registered, regvars>>

\* train_models: the exception of train_all_models passes through
TrainModelsRaise ==
    /\ ppc = "training" /\ tpc = "raised"
    /\ StageEnd("train", mode = "direct", TRUE)
    /\ tpc' = "idle"
    /\ UNCHANGED <<ensemble_config, heap, cache, todo, result, ens, terr>>
    /\ UNCHANGED <<auxvars, infervars, peer, train_config, validation_config, run_heap, pl, loads, direct_calls, run_save, registered, regvars>>

\* evaluate_models reads self.trained_models and, for every item, self.X_test
EvaluateRaises(p) == ~p.has_models \/ (p.models # EmptyDict /\ p.test = 0)

\* evaluate_models: metrics for every item of self.trained_models
EvaluateCall(direct) ==
    /\ StageGuard("evaluate", direct)
    /\ StageEnd("evaluate", direct, EvaluateRaises(pl))
    /\ pl' = IF EvaluateRaises(pl)
             THEN pl
             ELSE [pl EXCEPT !.has_evaluation = TRUE, !.evaluation = pl.models]
    /\ UNCHANGED <<auxvars, infervars, peer, train_config, validation_config, run_heap, loads, run_save, registered, regvars, trainvars>>

\* evaluate_models, by run() or by the caller
EvaluateModels == \E direct \in BOOLEAN : EvaluateCall(direct)

\* evaluator.evaluate: the metrics document of the model object evaluated
MetricsOf(handle) == "{accuracy of " \o ToString(handle) \o "}"

\* save_models taking for every model the metrics of the first one evaluated
MetricsForFirst(evaluation, model_name) ==
    IF evaluation = EmptyDict THEN EmptyDoc ELSE MetricsOf(evaluation[1][2])

\* save_models: results["evaluation"].get(model_name, {})
MetricsFor(evaluation, model_name) ==
    IF DictHas(evaluation, model_name) THEN MetricsOf(DictGet(evaluation, model_name))
    ELSE EmptyDoc

\* the failures of a write that may strike one register_model call of save_models
PipelineFailures == {"save", "metrics", "index_open", "index_dump"}

RECURSIVE SaveLoopRollback(_, _, _, _, _)
SaveLoopRollback(s, p, i, fail_at, fail) ==
    IF i > Len(p.models) \/ s.raised # "no" THEN s
    ELSE IF ~p.has_evaluation THEN [s EXCEPT !.raised = "KeyError"]
    ELSE IF p.test = 0 THEN [s EXCEPT !.raised = "AttributeError"]
    ELSE LET model_name == p.models[i][1]
             r == RegisterModel(s.registry, s.index_file, s.store, now, model_name,
                                RunVersion, MetricsFor(p.evaluation, model_name),
                                RunMetadata, IF i = fail_at THEN fail ELSE "no")
         IN  IF r.raised # "no"
             THEN [registry |-> registry, index_file |-> index_file, store |-> store,
                   raised |-> r.raised, names |-> Append(s.names, model_name)]
             ELSE SaveLoopRollback([registry |-> r.registry, index_file |-> r.index_file,
                                    store |-> r.store, raised |-> r.raised,
                                    names |-> Append(s.names, model_name)],
                                   p, i + 1, fail_at, fail)

RECURSIVE SaveLoop(_, _, _, _, _)
\* save_models, its loop from item i on; the call for item fail_at fails as fail says
SaveLoop(s, p, i, fail_at, fail) ==
    IF i > Len(p.models) \/ s.raised # "no" THEN s
    ELSE IF ~p.has_evaluation THEN [s EXCEPT !.raised = "KeyError"]
    ELSE IF p.test = 0 THEN [s EXCEPT !.raised = "AttributeError"]
    ELSE LET model_name == p.models[i][1]
             r == RegisterModel(s.registry, s.index_file, s.store, now, model_name,
                                RunVersion, MetricsFor(p.evaluation, model_name),
                                RunMetadata, IF i = fail_at THEN fail ELSE "no")
         IN  SaveLoop([registry |-> r.registry, index_file |-> r.index_file,
                       store |-> r.store, raised |-> r.raised,
                       names |-> Append(s.names, model_name)],
                      p, i + 1, fail_at, fail)

\* save_models: what its loop leaves, and how it ends
SaveResult(p, fail_at, fail) ==
    IF p.has_models
    THEN SaveLoop([registry |-> registry, index_file |-> index_file,
                   store |-> store, raised |-> "no", names |-> <<>>],
                  p, 1, fail_at, fail)
    ELSE [registry |-> registry, index_file |-> index_file,
          store |-> store, raised |-> "AttributeError", names |-> <<>>]

\* save_models(version): register_model for every item of self.trained_models
SaveModelsCall(direct, fail_at, fail) ==
    /\ StageGuard("register", direct)
    /\ fail_at # 0 => faults < MaxFaults /\ pl.has_models /\ fail_at <= Len(pl.models)
    /\ fail_at = 0 => fail = "save"
    /\ LET s == SaveResult(pl, fail_at, fail)
       IN  /\ registry' = s.registry
           /\ index_file' = s.index_file
           /\ store' = s.store
           /\ registered' = IF direct THEN registered ELSE registered \o s.names
           /\ faults' = IF fail_at # 0 /\ s.raised # "no" THEN faults + 1 ELSE faults
           /\ StageEnd("register", direct, s.raised # "no")
    /\ UNCHANGED <<auxvars, infervars, peer, train_config, validation_config, run_heap, pl, loads, run_save, now, trainvars>>

\* save_models, by run() or by the caller
SaveModels ==
    \E direct \in BOOLEAN, fail_at \in 0..2, fail \in PipelineFailures :
        SaveModelsCall(direct, fail_at, fail)

\* run(): get_best_model over self.trained_models, then the return
RunFinish ==
    /\ ppc = "best" /\ mode = "run"
    /\ ppc' = "idle"
    /\ mode' = "none"
    /\ run_result' = IF pl.models = EmptyDict
                     THEN [state |-> "raised", stage |-> "best"]
                     ELSE [state |-> "returned", stage |-> "best"]
    /\ UNCHANGED <<auxvars, infervars, peer, train_config, validation_config, run_heap, pl, loads, direct_calls, run_save, completed,
                   registered, regvars, trainvars>>

\* the configuration files the pipeline is constructed with
PipelineConfigs ==
    { <<<<"logistic_regression", "hybrid_ensemble">>,
        <<"logistic_regression", "gradient_boosting">>,
        {"sample_count", "missing_values", "duplicates", "target_balance"}>>,
      <<<<"hybrid_ensemble">>,
        <<"logistic_regression", "svm">>,
        {"sample_count", "missing_values", "duplicates", "target_balance"}>>,
      <<<<"hybrid_ensemble">>,
        <<"logistic_regression", "gradient_boosting">>,
        {"sample_count", "missing_values", "target_balance"}>> }

\* a pipeline newly constructed over an empty registry
PipeInit ==
    /\ RegistryUnused
    /\ PipelineNew
    /\ InferenceNone
    /\ PeerAbsent
    /\ train_config \in TrainConfigs
    /\ validation_config \in ValidationConfigs
    /\ ensemble_config \in PipelineEnsembleConfigs
    /\ <<train_config, ensemble_config, validation_config>> \in PipelineConfigs
    /\ heap = <<>>
    /\ cache = EmptyDict
    /\ tpc = "idle"
    /\ todo = <<>>
    /\ result = EmptyDict
    /\ ens = [names |-> <<>>, base_models |-> <<>>]
    /\ terr = "no"

PipeNext ==
    \/ RunPipeline
    \/ LoadAndValidateData
    \/ PreprocessData
    \/ SplitDataset
    \/ PrepareFeatures
    \/ TrainModels
    \/ TrainSingle
    \/ BeginEnsemble
    \/ ResolveEnsemble
    \/ TrainEnsemble
    \/ ReturnTrainAll
    \/ TrainModelsReturn
    \/ TrainModelsRaise
    \/ EvaluateModels
    \/ SaveModels
    \/ RunFinish

\* one pipeline object: run() and the stage methods, called time and again
PipeSpec == PipeInit /\ [][PipeNext]_vars

\* run() is called on a pipeline that has loaded fewer than MaxRuns datasets
RunAgain == loads < MaxRuns /\ \E save \in BOOLEAN : RunCall(save)

\* the stages as run() calls them
RunValidate ==
    \E outcome \in StageOutcomes, dataset \in Datasets :
        LoadAndValidateCall(FALSE, outcome, dataset)

RunPreprocess == \E outcome \in StageOutcomes : PreprocessCall(FALSE, outcome)

RunSplit == \E outcome \in StageOutcomes : SplitCall(FALSE, outcome)

RunFeatures == \E outcome \in FeatureOutcomes : FeaturesCall(FALSE, outcome)

RunTrain == TrainModelsCall(FALSE, None)

RunEvaluate == EvaluateCall(FALSE)

RunRegister == SaveModelsCall(FALSE, 0, "save")

RerunNext ==
    \/ RunAgain
    \/ RunValidate
    \/ RunPreprocess
    \/ RunSplit
    \/ RunFeatures
    \/ RunTrain
    \/ TrainSingle
    \/ BeginEnsemble
    \/ ResolveEnsemble
    \/ TrainEnsemble
    \/ ReturnTrainAll
    \/ TrainModelsReturn
    \/ TrainModelsRaise
    \/ RunEvaluate
    \/ RunRegister
    \/ RunFinish

\* one pipeline object on which the caller calls run(), time and again
RerunSpec == PipeInit /\ [][RerunNext]_vars

-----------------------------------------------------------------------------
(* The inference pipeline: InferencePipeline and ModelPredictor *)

\* model_config["features"] in the configurations the pipeline is built with
FeatureContracts == {<<"radius", "texture", "area">>, <<"area", "radius">>}

\* the column names that occur in inputs: the features, and one that is none
ColumnNames == {"radius", "texture", "area", "id"}

FeatureCode(f) ==
    CASE f = "radius" -> 1 [] f = "texture" -> 2 [] f = "area" -> 3 [] OTHER -> 0

\* the samples an input is made of
Samples == 0..(MaxSample - 1)

\* the value of a column in a sample: no two columns of a sample agree
ValueOf(f, sample) == 4 * sample + FeatureCode(f)

\* the cell pandas fills in where a record has no value for a column
NaN == -1

\* a feature mapping {key: value}, with its keys in the order given
Mapping(keys, sample) == [i \in 1..Len(keys) |-> <<keys[i], ValueOf(keys[i], sample)>>]

\* the key orders of the mappings and the column orders of the tables
KeyLists ==
    { <<"radius", "texture", "area">>, <<"area", "id", "texture", "radius">>,
      <<"radius", "id">>, <<"texture">>, <<>> }

Input(kind, records, columns, rows) ==
    [kind |-> kind, records |-> records, columns |-> columns, rows |-> rows]

\* the sequences of at most n samples
SampleSeqs(n) == UNION {[1..k -> Samples] : k \in 0..n}

\* the arguments of prepare_input: a dict, a list of dicts, a DataFrame, an ndarray
InputData(contract) ==
    {Input("dict", <<Mapping(keys, s)>>, <<>>, <<>>) : keys \in KeyLists, s \in Samples}
    \cup {Input("list", <<>>, <<>>, <<>>)}
    \cup {Input("list", <<Mapping(k1, 0), Mapping(k2, 1)>>, <<>>, <<>>) :
              k1 \in KeyLists, k2 \in KeyLists}
    \cup {Input("frame", <<>>, keys, [r \in 1..Len(ss) |->
                                          [j \in 1..Len(keys) |-> ValueOf(keys[j], ss[r])]]) :
              keys \in KeyLists, ss \in SampleSeqs(MaxRows)}
    \cup {Input("ndarray", <<>>, <<>>, [r \in 1..Len(ss) |->
                                           [j \in 1..Len(contract) |-> ValueOf(contract[j], ss[r])]]) :
              ss \in SampleSeqs(MaxRows)}

\* the keys of the records, each at its first occurrence
RECURSIVE UnionKeys(_, _)
UnionKeys(records, columns) ==
    IF records = <<>> THEN columns
    ELSE LET keys  == [i \in 1..Len(Head(records)) |-> Head(records)[i][1]]
             fresh == SelectSeq(keys, LAMBDA k : \A j \in 1..Len(columns) : columns[j] # k)
         IN  UnionKeys(Tail(records), columns \o fresh)

\* pd.DataFrame(records): one column per key, NaN where a record has no such key
FrameOfRecords(records) ==
    LET columns == UnionKeys(records, <<>>) IN
    [columns |-> columns,
     rows    |-> [r \in 1..Len(records) |->
                    [j \in 1..Len(columns) |->
                        IF DictHas(records[r], columns[j])
                        THEN DictGet(records[r], columns[j]) ELSE NaN]]]

\* the DataFrame prepare_input works on
FrameOf(data) ==
    IF data.kind = "frame" THEN [columns |-> data.columns, rows |-> data.rows]
    ELSE FrameOfRecords(data.records)

ColumnIndex(columns, f) == CHOOSE j \in 1..Len(columns) : columns[j] = f

\* data[feature_names].values
SelectColumns(df, feature_names) ==
    [r \in 1..Len(df.rows) |->
        [j \in 1..Len(feature_names) |-> df.rows[r][ColumnIndex(df.columns, feature_names[j])]]]

\* [f for f in feature_names if f not in data.columns]
MissingFeatures(df, feature_names) ==
    SelectSeq(feature_names, LAMBDA f : \A j \in 1..Len(df.columns) : df.columns[j] # f)

\* how a call ends: it returns a value or raises an exception
Value(v) == [state |-> "returned", error |-> "no", missing |-> <<>>, value |-> v]

Error(e) == [state |-> "raised", error |-> e, missing |-> <<>>, value |-> <<>>]

\* ValueError(f"Missing required features: {missing_features}")
MissingError(missing_features) ==
    [state |-> "raised", error |-> "ValueError", missing |-> missing_features, value |-> <<>>]

\* prepare_input reporting the first missing feature only
PrepareInputFirstMissing(feature_names, data) ==
    IF data.kind = "ndarray" THEN Value(data.rows)
    ELSE LET df == FrameOf(data)
             missing_features == MissingFeatures(df, feature_names)
         IN  IF missing_features # <<>>
             THEN MissingError(<<Head(missing_features)>>)
             ELSE Value(SelectColumns(df, feature_names))

\* prepare_input
PrepareInput(feature_names, data) ==
    IF data.kind = "ndarray" THEN Value(data.rows)
    ELSE LET df == FrameOf(data)
             missing_features == MissingFeatures(df, feature_names)
         IN  IF missing_features # <<>>
             THEN MissingError(missing_features)
             ELSE Value(SelectColumns(df, feature_names))

\* probabilities are counted in units of 1 / ProbaScale
ProbaScale == 4

\* predict_with_confidence(threshold=0.5)
DefaultThreshold == ProbaScale \div 2

\* the thresholds a caller passes, from 0 to beyond 1
Thresholds == 0..(ProbaScale + 1)

\* a fitted classifier decides row by row: what it makes of a row depends on
\* the row alone
RowKeys == 3

RowKey(row) == IF row = <<>> THEN 1 ELSE (row[1] % RowKeys) + 1

\* ModelPredictor.model is None
NoModel == [name |-> None, proba |-> <<>>, label |-> <<>>]

\* ModelPredictor.model is the model object load_model has constructed and
\* could not load: its is_trained is false
Untrained == [name |-> "untrained", proba |-> <<>>, label |-> <<>>]

\* the classifiers a model directory unpickles to: proba is the probability of
\* the positive class and label the class predict returns, by row key.  The
\* first decides by argmax (a tie goes to class 0), the second is a hard vote
\* that disagrees with the average of its members' probabilities.
Classifiers ==
    { [name |-> "logistic_regression", proba |-> <<1, 2, 3>>, label |-> <<0, 0, 1>>],
      [name |-> "hybrid_ensemble", proba |-> <<3, 0, 2>>, label |-> <<0, 1, 1>>] }

\* the estimator rejects a matrix without rows and a matrix with a NaN cell
EstimatorRejects(X) ==
    \/ X = <<>>
    \/ \E r \in 1..Len(X) : \E j \in 1..Len(X[r]) : X[r][j] = NaN

\* ModelPredictor.predict
Predict(model, X) ==
    IF model = NoModel THEN Error("ValueError")
    ELSE IF model = Untrained THEN Error("ValueError")
    ELSE IF EstimatorRejects(X) THEN Error("ValueError")
    ELSE Value([r \in 1..Len(X) |-> model.label[RowKey(X[r])]])

\* ModelPredictor.predict_proba: one row <<P(class 0), P(class 1)>> per row of X
PredictProba(model, X) ==
    IF model = NoModel THEN Error("ValueError")
    ELSE IF model = Untrained THEN Error("ValueError")
    ELSE IF EstimatorRejects(X) THEN Error("ValueError")
    ELSE Value([r \in 1..Len(X) |->
                   <<ProbaScale - model.proba[RowKey(X[r])], model.proba[RowKey(X[r])]>>])

Max2(a, b) == IF a >= b THEN a ELSE b

ConfidenceResult(predictions, probabilities, confidence, positive_proba) ==
    [predictions |-> predictions, probabilities |-> probabilities,
     confidence |-> confidence, positive_proba |-> positive_proba]

\* predict_with_confidence returning what the classifier itself predicts
PredictWithConfidenceOwnLabel(model, X, threshold) ==
    LET p == PredictProba(model, X) IN
    IF p.state = "raised" THEN p
    ELSE LET probabilities == p.value IN
         Value(ConfidenceResult(
             Predict(model, X).value,
             probabilities,
             [r \in 1..Len(probabilities) |-> Max2(probabilities[r][1], probabilities[r][2])],
             [r \in 1..Len(probabilities) |-> probabilities[r][2]]))

\* predict_with_confidence reporting the probability of the class it predicts
PredictWithConfidenceOfPredicted(model, X, threshold) ==
    LET p == PredictProba(model, X) IN
    IF p.state = "raised" THEN p
    ELSE LET probabilities == p.value
             predictions == [r \in 1..Len(probabilities) |->
                                IF probabilities[r][2] >= threshold THEN 1 ELSE 0]
         IN  Value(ConfidenceResult(
                 predictions,
                 probabilities,
                 [r \in 1..Len(probabilities) |-> probabilities[r][predictions[r] + 1]],
                 [r \in 1..Len(probabilities) |-> probabilities[r][2]]))

\* ModelPredictor.predict_with_confidence
PredictWithConfidence(model, X, threshold) ==
    LET p == PredictProba(model, X) IN
    IF p.state = "raised" THEN p
    ELSE LET probabilities == p.value IN
         Value(ConfidenceResult(
             [r \in 1..Len(probabilities) |-> IF probabilities[r][2] >= threshold THEN 1 ELSE 0],
             probabilities,
             [r \in 1..Len(probabilities) |-> Max2(probabilities[r][1], probabilities[r][2])],
             [r \in 1..Len(probabilities) |-> probabilities[r][2]]))

\* X[i : i + batch_size], with i counted from 0
Slice(X, i, batch_size) ==
    IF i >= Len(X) THEN <<>>
    ELSE SubSeq(X, i + 1, IF i + batch_size > Len(X) THEN Len(X) ELSE i + batch_size)

\* np.concatenate(predictions)
Concatenate(arrays) == IF arrays = <<>> THEN Error("ValueError") ELSE Value(Flatten(arrays))

\* the loop of batch_predict over range(0, n_samples, batch_size), from i on
RECURSIVE BatchLoop(_, _, _, _, _)
BatchLoop(model, X, batch_size, i, predictions) ==
    IF i >= Len(X) THEN Concatenate(predictions)
    ELSE LET batch_pred == Predict(model, Slice(X, i, batch_size)) IN
         IF batch_pred.state = "raised" THEN batch_pred
         ELSE BatchLoop(model, X, batch_size, i + batch_size,
                        Append(predictions, batch_pred.value))

\* batch_predict keeping the last prediction array only
BatchPredictLastChunk(model, X, batch_size) ==
    LET r == BatchLoop(model, X, batch_size, 0, <<>>) IN
    IF r.state = "raised" \/ Len(X) <= batch_size THEN r
    ELSE Predict(model, Slice(X, ((Len(X) - 1) \div batch_size) * batch_size, batch_size))

\* ModelPredictor.batch_predict
BatchPredict(model, X, batch_size) == BatchLoop(model, X, batch_size, 0, <<>>)

\* InferencePipeline.predict
InferencePredict(model, feature_names, data, return_proba) ==
    LET X == PrepareInput(feature_names, data) IN
    IF X.state = "raised" THEN X
    ELSE LET predictions == Predict(model, X.value) IN
         IF predictions.state = "raised" \/ ~return_proba THEN predictions
         ELSE LET probabilities == PredictProba(model, X.value) IN
              IF probabilities.state = "raised" THEN probabilities
              ELSE Value([predictions |-> predictions.value,
                          probabilities |-> probabilities.value,
                          positive_probability |->
                              [r \in 1..Len(probabilities.value) |-> probabilities.value[r][2]]])

\* InferencePipeline.predict_with_confidence
InferencePredictWithConfidence(model, feature_names, data, threshold) ==
    LET X == PrepareInput(feature_names, data) IN
    IF X.state = "raised" THEN X ELSE PredictWithConfidence(model, X.value, threshold)

\* the dict predict_single returns
SingleOutput(confident, return_proba) ==
    << <<"prediction", confident.predictions[1]>>,
       <<"diagnosis", IF confident.predictions[1] = 1 THEN "Malignant" ELSE "Benign">>,
       <<"confidence", confident.confidence[1]>> >>
    \o (IF return_proba
        THEN << <<"probability_benign", confident.probabilities[1][1]>>,
                <<"probability_malignant", confident.probabilities[1][2]>> >>
        ELSE <<>>)

\* predict_single returning the probabilities whether asked for or not
PredictSingleAlwaysProba(model, feature_names, data, return_proba) ==
    LET confident == InferencePredictWithConfidence(
                      model, feature_names, Input("list", data.records, <<>>, <<>>),
                      DefaultThreshold)
    IN  IF confident.state = "raised" THEN confident
        ELSE Value(SingleOutput(confident.value, TRUE))

\* InferencePipeline.predict_single: predict_with_confidence([features])
PredictSingle(model, feature_names, data, return_proba) ==
    LET confident == InferencePredictWithConfidence(
                      model, feature_names, Input("list", data.records, <<>>, <<>>),
                      DefaultThreshold)
    IN  IF confident.state = "raised" THEN confident
        ELSE Value(SingleOutput(confident.value, return_proba))

\* InferencePipeline.batch_predict
InferenceBatchPredict(model, feature_names, data, batch_size, return_proba) ==
    LET X == PrepareInput(feature_names, data) IN
    IF X.state = "raised" THEN X
    ELSE LET predictions == BatchPredict(model, X.value, batch_size) IN
         IF predictions.state = "raised" \/ ~return_proba THEN predictions
         ELSE LET probabilities == PredictProba(model, X.value) IN
              IF probabilities.state = "raised" THEN probabilities
              ELSE Value([predictions |-> predictions.value,
                          probabilities |-> probabilities.value])

\* the batch sizes a caller passes
BatchSizes == 1..MaxBatch

Arguments(threshold, batch_size, return_proba) ==
    [threshold |-> threshold, batch_size |-> batch_size, return_proba |-> return_proba]

NoArguments == Arguments(DefaultThreshold, 0, FALSE)

\* a call on the inference pipeline, its arguments and the way it ended
CallRecord(op, data, arguments, outcome) ==
    [op |-> op, data |-> data, arguments |-> arguments, state |-> outcome.state,
     error |-> outcome.error, missing |-> outcome.missing, value |-> outcome.value]

\* the caller holds an input and has not yet called the pipeline with it
Request(data) == [op |-> "none", state |-> "none", data |-> data]

\* a call on a pipeline that reads the index anew and gives up its model when
\* the index is no longer the one it was constructed from
InferenceCallRereading(op, arguments, outcome) ==
    /\ ipc = "ready"
    /\ call' = CallRecord(op, call.data, arguments, outcome)
    /\ peer' = LoadRegistry(index_file)
    /\ predictor' = IF LoadRegistry(index_file) = peer THEN predictor ELSE NoModel
    /\ UNCHANGED <<features, ipc, regvars, trainvars, pipevars, auxvars>>

\* a call on a pipeline that was constructed, with the input the caller holds
InferenceCall(op, arguments, outcome) ==
    /\ ipc = "ready"
    /\ call' = CallRecord(op, call.data, arguments, outcome)
    /\ UNCHANGED <<features, predictor, ipc, peer, regvars, trainvars, pipevars, auxvars>>

PrepareInputCall ==
    InferenceCall("prepare_input", NoArguments, PrepareInput(features, call.data))

PredictCall(return_proba) ==
    InferenceCall("predict", Arguments(DefaultThreshold, 0, return_proba),
                  InferencePredict(predictor, features, call.data, return_proba))

PredictWithConfidenceCall(threshold) ==
    InferenceCall("predict_with_confidence", Arguments(threshold, 0, FALSE),
                  InferencePredictWithConfidence(predictor, features, call.data, threshold))

BatchPredictCall(batch_size, return_proba) ==
    InferenceCall("batch_predict", Arguments(DefaultThreshold, batch_size, return_proba),
                  InferenceBatchPredict(predictor, features, call.data, batch_size,
                                        return_proba))

\* predict_single takes one feature mapping
PredictSingleCall(return_proba) ==
    /\ call.data.kind = "dict"
    /\ InferenceCall("predict_single", Arguments(DefaultThreshold, 0, return_proba),
                     PredictSingle(predictor, features, call.data, return_proba))

PredictSingleStep == \E return_proba \in BOOLEAN : PredictSingleCall(return_proba)

PredictStep == \E return_proba \in BOOLEAN : PredictCall(return_proba)

PredictWithConfidenceStep == \E threshold \in Thresholds : PredictWithConfidenceCall(threshold)

BatchPredictStep ==
    \E batch_size \in BatchSizes, return_proba \in BOOLEAN :
        BatchPredictCall(batch_size, return_proba)

\* InferencePipeline(model_path=...): the registry is not consulted
ServeInit ==
    /\ RegistryUnused
    /\ TrainerIdle
    /\ PipelineIdle
    /\ PeerAbsent
    /\ features \in FeatureContracts
    /\ predictor \in Classifiers
    /\ ipc = "ready"
    /\ \E data \in InputData(features) : call = Request(data)

ServeNext ==
    \/ PrepareInputCall
    \/ PredictStep
    \/ PredictWithConfidenceStep
    \/ BatchPredictStep
    \/ PredictSingleStep

\* one inference pipeline with a model loaded, called time and again with the
\* input the caller holds
ServeSpec == ServeInit /\ [][ServeNext]_vars

\* ModelPredictor.load_model, once the directory is found: self.model is a
\* new model object, whose load raises unless the directory holds the pickled
\* model
LoadModel(st, model_path, unpickled) ==
    IF st[model_path].dir = "complete"
    THEN [state |-> "returned", error |-> "no", model |-> unpickled]
    ELSE [state |-> "raised", error |-> "FileNotFoundError", model |-> Untrained]

\* load_model_from_registry leaving the predictor without a model when the
\* registry does not know the path
LoadModelFromRegistryDropsModel(reg, st, model, model_name, version, unpickled) ==
    LET model_path == GetModelPath(reg, st, model_name, version) IN
    IF model_path = None
    THEN [state |-> "raised", error |-> "FileNotFoundError", model |-> NoModel]
    ELSE LoadModel(st, model_path, unpickled)

\* load_model_from_registry: how it ends and the model the predictor holds
\* afterwards, given the model it held before
LoadModelFromRegistry(reg, st, model, model_name, version, unpickled) ==
    LET model_path == GetModelPath(reg, st, model_name, version) IN
    IF model_path = None
    THEN [state |-> "raised", error |-> "FileNotFoundError", model |-> model]
    ELSE LoadModel(st, model_path, unpickled)

Lookup(model_name, version) == [model_name |-> model_name, version |-> version]

LoadRecord(op, data, model_name, version, loaded) ==
    [op |-> op, data |-> data, arguments |-> Lookup(model_name, version),
     state |-> loaded.state, error |-> loaded.error, missing |-> <<>>, value |-> <<>>]

\* InferencePipeline(model_name, model_version): it builds its own registry
\* from the index on disk and loads the model, or raises and does not exist
ConstructCall(model_name, version, unpickled) ==
    LET reg    == LoadRegistry(index_file)
        loaded == LoadModelFromRegistry(reg, store, NoModel, model_name, version, unpickled)
    IN  /\ ipc = "none"
        /\ peer' = reg
        /\ predictor' = loaded.model
        /\ ipc' = IF loaded.state = "raised" THEN "failed" ELSE "ready"
        /\ call' = LoadRecord("construct", call.data, model_name, version, loaded)
        /\ UNCHANGED <<features, regvars, trainvars, pipevars, auxvars>>

Construct ==
    \E model_name \in QueryNames, version \in QueryVersions, unpickled \in Classifiers :
        ConstructCall(model_name, version, unpickled)

\* load_model_from_registry, called on a pipeline that was constructed
ReloadCall(model_name, version, unpickled) ==
    LET loaded == LoadModelFromRegistry(peer, store, predictor, model_name, version, unpickled)
    IN  /\ ipc = "ready"
        /\ predictor' = loaded.model
        /\ call' = LoadRecord("load_model_from_registry", call.data, model_name, version,
                              loaded)
        /\ UNCHANGED <<features, ipc, peer, regvars, trainvars, pipevars, auxvars>>

Reload ==
    \E model_name \in QueryNames, version \in QueryVersions, unpickled \in Classifiers :
        ReloadCall(model_name, version, unpickled)

\* a training run registers a model under the root the pipeline reads
Publish == \E k \in RegKeys : RegisterCall(k[1], k[2], None, None, "no")

\* the request the caller of the pipeline holds: one row, as an array
ProbeInput(contract) ==
    Input("ndarray", <<>>, <<>>, <<[j \in 1..Len(contract) |-> ValueOf(contract[j], 0)]>>)

\* a registry root, and a caller about to construct an inference pipeline
LookupInit ==
    /\ RegistryInit
    /\ TrainerIdle
    /\ PipelineIdle
    /\ PeerAbsent
    /\ features \in FeatureContracts
    /\ predictor = NoModel
    /\ ipc = "none"
    /\ call = Request(ProbeInput(features))

LookupNext ==
    \/ Publish
    \/ RemoveDir
    \/ Construct
    \/ Reload
    \/ PredictStep
    \/ PredictWithConfidenceCall(DefaultThreshold)

\* an inference pipeline constructed from the registry, beside the training
\* runs that fill the registry
LookupSpec == LookupInit /\ [][LookupNext]_vars

\* a registry root, and a caller about to construct an inference pipeline
\* with one row to ask about, as an array or as a feature mapping
PinInit ==
    /\ RegistryInit
    /\ TrainerIdle
    /\ PipelineIdle
    /\ PeerAbsent
    /\ features \in FeatureContracts
    /\ predictor = NoModel
    /\ ipc = "none"
    /\ \E data \in {ProbeInput(features), Input("dict", <<Mapping(features, 0)>>, <<>>, <<>>)} :
           call = Request(data)

PinNext ==
    \/ Publish
    \/ Delete
    \/ Promote
    \/ Construct
    \/ PredictStep
    \/ PredictWithConfidenceCall(DefaultThreshold)
    \/ PredictSingleStep
    \/ BatchPredictCall(1, FALSE)

\* an inference pipeline that is constructed once and then serves, beside a
\* registry instance that registers, deletes and promotes
PinSpec == PinInit /\ [][PinNext]_vars

-----------------------------------------------------------------------------
(* Two registry instances over one root *)

\* register_model, called on the second instance
PeerRegisterCall(model_name, version) ==
    LET r == RegisterModel(peer, index_file, store, now, model_name, version, None, None, "no")
    IN  /\ peer' = r.registry
        /\ index_file' = r.index_file
        /\ store' = r.store
        /\ UNCHANGED <<registry, now, faults, trainvars, pipevars, infervars, auxvars>>

PeerRegister == \E k \in RegKeys : PeerRegisterCall(k[1], k[2])

\* delete_model, called on the second instance
PeerDeleteCall(model_name, version) ==
    LET r == DeleteModel(peer, index_file, model_name, version, "no")
    IN  /\ peer' = r.registry
        /\ index_file' = r.index_file
        /\ UNCHANGED <<registry, store, now, faults, trainvars, pipevars, infervars, auxvars>>

PeerDelete == \E k \in RegKeys : PeerDeleteCall(k[1], k[2])

\* promote_model, called on the second instance
PeerPromoteCall(model_name, version, stage) ==
    LET r == PromoteModel(peer, index_file, model_name, version, stage, "no")
    IN  /\ peer' = r.registry
        /\ index_file' = r.index_file
        /\ UNCHANGED <<registry, store, now, faults, trainvars, pipevars, infervars, auxvars>>

PeerPromote == \E k \in RegKeys, stage \in StageInputs : PeerPromoteCall(k[1], k[2], stage)

OwnDelete == \E k \in RegKeys : DeleteCall(k[1], k[2])

OwnPromote == \E k \in RegKeys, stage \in StageInputs : PromoteCall(k[1], k[2], stage)

\* ModelRegistry() twice over the same root: both load the index that is there
SharedInit ==
    /\ RegistryInit
    /\ TrainerIdle
    /\ PipelineIdle
    /\ InferenceNone
    /\ peer = LoadRegistry(index_file)
    /\ compared = [state |-> "none"]
    /\ ModelsNone

SharedNext ==
    \/ Publish
    \/ OwnDelete
    \/ OwnPromote
    \/ PeerRegister
    \/ PeerDelete
    \/ PeerPromote

\* two processes, each with its own registry instance, their calls interleaved
SharedSpec == SharedInit /\ [][SharedNext]_vars

-----------------------------------------------------------------------------
(* The evaluator: ModelEvaluator.get_best_model *)

\* the names a mapping of trained models may hold, in any order
ComparedNames == <<"logistic_regression", "gradient_boosting", "hybrid_ensemble",
                   "neural_network">>

\* the sequences of k different numbers of 1..n
Arrangements(n, k) ==
    {q \in [1..k -> 1..n] : \A i \in 1..k : \A j \in 1..k : i # j => q[i] # q[j]}

\* the mappings name -> handle of at most MaxModels trained models
TrainedMappings ==
    UNION {{[i \in 1..k |-> <<ComparedNames[q[i]], q[i]>>] : q \in Arrangements(MaxModels, k)} :
               k \in 0..MaxModels}

\* evaluate: the metrics of a model whose accuracy is a of MaxScore
MetricsAt(a) == [accuracy |-> a, f1_score |-> MaxScore - a]

MetricNames == {"accuracy", "f1_score"}

\* compare_models: the metrics of every model, under its name, in the order
\* of the mapping
CompareModels(models, accuracies) ==
    [i \in 1..Len(models) |-> <<models[i][1], MetricsAt(accuracies[i])>>]

\* max(results, key=...) keeping the last of several greatest items
RECURSIVE MaxNameLast(_, _, _, _)
MaxNameLast(results, metric, winner, i) ==
    IF i > Len(results) THEN results[winner][1]
    ELSE IF results[i][2][metric] >= results[winner][2][metric]
         THEN MaxNameLast(results, metric, i, i + 1)
         ELSE MaxNameLast(results, metric, winner, i + 1)

\* max(results, key=lambda name: results[name][metric]): an item replaces the
\* one held only when its key is greater
RECURSIVE MaxName(_, _, _, _)
MaxName(results, metric, winner, i) ==
    IF i > Len(results) THEN results[winner][1]
    ELSE IF results[i][2][metric] > results[winner][2][metric]
         THEN MaxName(results, metric, i, i + 1)
         ELSE MaxName(results, metric, winner, i + 1)

\* get_best_model
GetBestModel(models, accuracies, metric) ==
    LET results == CompareModels(models, accuracies) IN
    IF results = EmptyDict
    THEN [state |-> "raised", error |-> "ValueError", best_name |-> None,
          best_model |-> 0, best_metrics |-> MetricsAt(0)]
    ELSE LET best_name == MaxName(results, metric, 1, 2) IN
         [state |-> "returned", error |-> "no", best_name |-> best_name,
          best_model |-> DictGet(models, best_name),
          best_metrics |-> DictGet(results, best_name)]

\* the models and their accuracies on the test set, and the call made on them
Comparison(models, accuracies, metric, outcome) ==
    [state |-> outcome.state, models |-> models, accuracies |-> accuracies,
     metric |-> metric, error |-> outcome.error, best_name |-> outcome.best_name,
     best_model |-> outcome.best_model, best_metrics |-> outcome.best_metrics]

GetBestModelCall(metric) ==
    /\ compared.state # "none"
    /\ compared' = Comparison(compared.models, compared.accuracies, metric,
                              GetBestModel(compared.models, compared.accuracies, metric))
    /\ UNCHANGED <<regvars, trainvars, pipevars, infervars, peer, modelvars, response>>

\* get_best_model with the default metric, as run() calls it
BestByAccuracy == GetBestModelCall("accuracy")

BestByOther == \E metric \in MetricNames \ {"accuracy"} : GetBestModelCall(metric)

BestInit ==
    /\ RegistryUnused
    /\ TrainerIdle
    /\ PipelineIdle
    /\ InferenceNone
    /\ peer = EmptyDict
    /\ ModelsNone
    /\ \E models \in TrainedMappings :
           \E accuracies \in [1..Len(models) -> 0..MaxScore] :
               compared = Comparison(models, accuracies, "accuracy",
                                     [state |-> "pending", error |-> "no", best_name |-> None,
                                      best_model |-> 0, best_metrics |-> MetricsAt(0)])

BestNext == BestByAccuracy \/ BestByOther

\* an evaluator asked for the best of a mapping of trained models
BestSpec == BestInit /\ [][BestNext]_vars

-----------------------------------------------------------------------------
(* Model objects: BaseModel.fit, save, load, predict *)

\* the two model objects of a caller that saves one and loads into the other
ObjectNames == {"model", "loaded_model"}

\* an estimator that was built and never fitted
Unfitted == [name |-> "unfitted", proba |-> <<>>, label |-> <<>>]

\* BaseModel.__init__: LogisticRegressionModel builds its estimator at once,
\* HybridEnsembleModel has none until it is fitted
FreshModel(model_name) ==
    [model_name |-> model_name,
     model      |-> IF model_name = "hybrid_ensemble" THEN NoModel ELSE Unfitted,
     is_trained |-> FALSE]

FreshModels == {FreshModel("logistic_regression"), FreshModel("hybrid_ensemble")}

\* the input batches: matrices of at most MaxRows rows
Batches == UNION {[1..k -> {<<v>> : v \in 0..(RowKeys - 1)}] : k \in 0..MaxRows}

\* joblib.dump(obj, filepath, compress=3): the bytes written for an estimator
Pickle(obj) == <<"joblib", obj.name, obj.proba, obj.label>>

\* joblib.load(filepath)
Unpickle(bytes) == [name |-> bytes[2], proba |-> bytes[3], label |-> bytes[4]]

\* self.model.predict(X), on whatever self.model is
EstimatorPredict(model, X) ==
    IF model = NoModel THEN Error("AttributeError")
    ELSE IF model = Unfitted THEN Error("NotFittedError")
    ELSE IF EstimatorRejects(X) THEN Error("ValueError")
    ELSE Value([r \in 1..Len(X) |-> model.label[RowKey(X[r])]])

\* self.model.predict_proba(X), reached when self.model has that attribute
EstimatorPredictProba(model, X) ==
    IF model = NoModel THEN Error("NotImplementedError")
    ELSE IF model = Unfitted THEN Error("NotFittedError")
    ELSE IF EstimatorRejects(X) THEN Error("ValueError")
    ELSE Value([r \in 1..Len(X) |->
                   <<ProbaScale - model.proba[RowKey(X[r])], model.proba[RowKey(X[r])]>>])

\* BaseModel.predict without its check of is_trained
BasePredictUnchecked(obj, X) == EstimatorPredict(obj.model, X)

\* BaseModel.predict
BasePredict(obj, X) ==
    IF ~obj.is_trained THEN Error("ValueError") ELSE EstimatorPredict(obj.model, X)

\* BaseModel.predict_proba
BasePredictProba(obj, X) ==
    IF ~obj.is_trained THEN Error("ValueError") ELSE EstimatorPredictProba(obj.model, X)

\* the subclass's fit: the estimator is fitted, is_trained is set
BaseFit(obj, classifier) == [obj EXCEPT !.model = classifier, !.is_trained = TRUE]

\* the document save writes to metadata.json, for metadata=None
MetadataDocument(obj) ==
    [model_name |-> obj.model_name, params |-> "{}", is_trained |-> obj.is_trained]

\* BaseModel.save: model.pkl, then metadata.json
BaseSave(obj, dir) ==
    DictSet(DictSet(dir, "model.pkl", Pickle(obj.model)),
            "metadata.json", MetadataDocument(obj))

LoadOutcome(state, error, obj) == [state |-> state, error |-> error, object |-> obj]

\* load leaving is_trained as it was
BaseLoadKeepsFlag(obj, dir) ==
    IF ~DictHas(dir, "model.pkl") THEN LoadOutcome("raised", "FileNotFoundError", obj)
    ELSE LoadOutcome("returned", "no",
                     [obj EXCEPT !.model = Unpickle(DictGet(dir, "model.pkl"))])

\* BaseModel.load
BaseLoad(obj, dir) ==
    IF ~DictHas(dir, "model.pkl") THEN LoadOutcome("raised", "FileNotFoundError", obj)
    ELSE LoadOutcome("returned", "no",
                     [obj EXCEPT !.model = Unpickle(DictGet(dir, "model.pkl")),
                                 !.is_trained = TRUE])

\* the caller holds a batch and has not yet called a model object
Asked(X) == [op |-> "none", state |-> "none", X |-> X]

\* a call on a model object and the way it ended, beside the batch the caller holds
AnswerRecord(op, name, outcome) ==
    [op |-> op, object |-> name, X |-> answer.X, state |-> outcome.state,
     error |-> outcome.error, value |-> outcome.value]

FitCall(name, classifier) ==
    /\ objects' = [objects EXCEPT ![name] = BaseFit(objects[name], classifier)]
    /\ answer' = AnswerRecord("fit", name, Value(<<>>))
    /\ UNCHANGED <<save_dir, compared, response, regvars, trainvars, pipevars, infervars, peer>>

SaveCall(name) ==
    /\ save_dir' = BaseSave(objects[name], save_dir)
    /\ answer' = AnswerRecord("save", name, Value(<<>>))
    /\ UNCHANGED <<objects, compared, response, regvars, trainvars, pipevars, infervars, peer>>

LoadCall(name) ==
    LET r == BaseLoad(objects[name], save_dir) IN
    /\ objects' = [objects EXCEPT ![name] = r.object]
    /\ answer' = AnswerRecord("load", name,
                     IF r.state = "raised" THEN Error(r.error) ELSE Value(<<>>))
    /\ UNCHANGED <<save_dir, compared, response, regvars, trainvars, pipevars, infervars, peer>>

ModelPredictCall(name) ==
    /\ answer' = AnswerRecord("predict", name, BasePredict(objects[name], answer.X))
    /\ UNCHANGED <<objects, save_dir, compared, response, regvars, trainvars, pipevars, infervars, peer>>

ModelPredictProbaCall(name) ==
    /\ answer' = AnswerRecord("predict_proba", name, BasePredictProba(objects[name], answer.X))
    /\ UNCHANGED <<objects, save_dir, compared, response, regvars, trainvars, pipevars, infervars, peer>>

Fit == \E name \in DOMAIN objects, classifier \in Classifiers : FitCall(name, classifier)

Save == \E name \in DOMAIN objects : SaveCall(name)

Load == \E name \in DOMAIN objects : LoadCall(name)

ModelPredict == \E name \in DOMAIN objects : ModelPredictCall(name)

ModelPredictProba == \E name \in DOMAIN objects : ModelPredictProbaCall(name)

\* two model objects just constructed, an empty directory, and a batch to
\* ask predictions for
ModelInit ==
    /\ RegistryUnused
    /\ TrainerIdle
    /\ PipelineIdle
    /\ InferenceNone
    /\ peer = EmptyDict
    /\ compared = [state |-> "none"]
    /\ objects \in [ObjectNames -> FreshModels]
    /\ save_dir = EmptyDict
    /\ \E X \in Batches : answer = Asked(X)
    /\ response = NoResponse

ModelNext == Fit \/ Save \/ Load \/ ModelPredict \/ ModelPredictProba

\* model objects that are fitted, saved, loaded and asked for predictions
ModelSpec == ModelInit /\ [][ModelNext]_vars

-----------------------------------------------------------------------------
(* The API: startup_event, /health, /predict, /batch_predict *)

\* a ModelPredictor built over no model, over a model object that is not
\* trained, or over a trained one
PredictorModels == {NoModel, Untrained} \cup Classifiers

\* a call on a bare ModelPredictor, with the batch the caller holds
PredictorCall(op, model, outcome) ==
    /\ answer # NoAnswer
    /\ answer' = AnswerRecord(op, model.name, outcome)
    /\ UNCHANGED <<objects, save_dir, compared, response, regvars, trainvars, pipevars,
                   infervars, peer>>

PredictorPredictCall(model) ==
    PredictorCall("ModelPredictor.predict", model, Predict(model, answer.X))

PredictorPredictProbaCall(model) ==
    PredictorCall("ModelPredictor.predict_proba", model, PredictProba(model, answer.X))

PredictorBatchPredictCall(model, batch_size) ==
    PredictorCall("ModelPredictor.batch_predict", model,
                  BatchPredict(model, answer.X, batch_size))

PredictorPredict == \E model \in PredictorModels : PredictorPredictCall(model)

PredictorPredictProba == \E model \in PredictorModels : PredictorPredictProbaCall(model)

PredictorBatchPredict ==
    \E model \in PredictorModels, batch_size \in BatchSizes :
        PredictorBatchPredictCall(model, batch_size)

\* the request bodies the schema lets through: every feature is there
ApiRequests(contract) ==
    {Input("dict", <<Mapping(contract, s)>>, <<>>, <<>>) : s \in Samples}
    \cup {Input("list", [i \in 1..Len(ss) |-> Mapping(contract, ss[i])], <<>>, <<>>) :
              ss \in SampleSeqs(MaxRows)}

Response(endpoint, status_code) == [endpoint |-> endpoint, status_code |-> status_code]

\* a client sends its request and inference_pipeline is None:
\* HTTPException(status_code=503, detail="Model not loaded"), no call is made
NotLoaded(endpoint) ==
    /\ call # NoCall
    /\ ipc # "ready"
    /\ response' = Response(endpoint, 503)
    /\ UNCHANGED <<infervars, peer, regvars, trainvars, pipevars, compared, modelvars>>

\* the endpoint has called the pipeline: 200 if the call returned, 500 if it raised
Served(endpoint, op, arguments, outcome) ==
    /\ call' = CallRecord(op, call.data, arguments, outcome)
    /\ response' = Response(endpoint, IF outcome.state = "returned" THEN 200 ELSE 500)
    /\ UNCHANGED <<features, predictor, ipc, peer, regvars, trainvars, pipevars, compared,
                   modelvars>>

\* startup_event: the exception of the constructor is logged and dropped, and
\* inference_pipeline stays None
Startup ==
    \E model_name \in QueryNames, version \in QueryVersions, unpickled \in Classifiers :
        LET reg    == LoadRegistry(index_file)
            loaded == LoadModelFromRegistry(reg, store, NoModel, model_name, version,
                                            unpickled)
        IN  /\ ipc = "none"
            /\ peer' = reg
            /\ predictor' = loaded.model
            /\ ipc' = IF loaded.state = "raised" THEN "failed" ELSE "ready"
            /\ UNCHANGED <<features, call, regvars, trainvars, pipevars, auxvars>>

\* GET /health
HealthCheck ==
    \/ NotLoaded("/health")
    \/ /\ call # NoCall
       /\ ipc = "ready"
       /\ response' = Response("/health", 200)
       /\ UNCHANGED <<infervars, peer, regvars, trainvars, pipevars, compared, modelvars>>

\* POST /predict
ApiPredict(return_probabilities) ==
    \/ NotLoaded("/predict")
    \/ /\ call # NoCall
       /\ ipc = "ready"
       /\ call.data.kind = "dict"
       /\ Served("/predict", "predict_single",
                 Arguments(DefaultThreshold, 0, return_probabilities),
                 PredictSingle(predictor, features, call.data, return_probabilities))

\* POST /batch_predict
ApiBatchPredict(return_probabilities) ==
    \/ NotLoaded("/batch_predict")
    \/ /\ call # NoCall
       /\ ipc = "ready"
       /\ call.data.kind = "list"
       /\ Served("/batch_predict", "predict_with_confidence",
                 Arguments(DefaultThreshold, 0, return_probabilities),
                 InferencePredictWithConfidence(predictor, features, call.data,
                                                DefaultThreshold))

ApiPredictStep == \E return_probabilities \in BOOLEAN : ApiPredict(return_probabilities)

ApiBatchPredictStep ==
    \E return_probabilities \in BOOLEAN : ApiBatchPredict(return_probabilities)

\* the registry root after a training run has registered one model in it
Published(k) ==
    RegisterModel(EmptyDict, NoFile, [p \in AllPaths |-> NoDir], 0, k[1], k[2],
                  None, None, "no")

RegistryFilled ==
    \E k \in RegKeys :
        /\ registry = Published(k).registry
        /\ index_file = Published(k).index_file
        /\ store = Published(k).store
        /\ now = 0
        /\ faults = 0

\* the API process before startup, over a registry root, and a client with a request
ServerInit ==
    /\ RegistryInit \/ RegistryFilled
    /\ TrainerIdle
    /\ PipelineIdle
    /\ PeerAbsent
    /\ features \in FeatureContracts
    /\ predictor = NoModel
    /\ ipc = "none"
    /\ \E data \in ApiRequests(features) : call = Request(data)

\* a caller with model objects that are not trained and a batch, and no registry
CallerInit ==
    /\ RegistryUnused
    /\ TrainerIdle
    /\ PipelineIdle
    /\ InferenceNone
    /\ peer = EmptyDict
    /\ compared = [state |-> "none"]
    /\ objects \in [ObjectNames -> FreshModels]
    /\ save_dir = EmptyDict
    /\ \E X \in Batches : answer = Asked(X)
    /\ response = NoResponse

ApiInit == ServerInit \/ CallerInit

ApiNext ==
    \/ Startup
    \/ HealthCheck
    \/ ApiPredictStep
    \/ ApiBatchPredictStep
    \/ ModelPredict
    \/ ModelPredictProba
    \/ PredictorPredict
    \/ PredictorPredictProba
    \/ PredictorBatchPredict

\* the API and its clients, and callers of model objects and of predictors
\* that hold no trained model
ApiSpec == ApiInit /\ [][ApiNext]_vars

-----------------------------------------------------------------------------
(* Properties of the registry *)

RegisteredAt(model_name, version) == EntryOf(registry, model_name, version).registered_at

DirExists(model_name, version) == store[PathOf(model_name, version)].dir # "none"

Registered(model_name) ==
    IF DictHas(registry, model_name) THEN DictKeys(DictGet(registry, model_name)) ELSE {}

\* some version of the name carries a timestamp that no other version reaches
NewestOf(model_name, version) ==
    /\ version \in Registered(model_name)
    /\ \A v \in Registered(model_name) \ {version} :
           StrLess(RegisteredAt(model_name, v), RegisteredAt(model_name, version))

C1_ArgMax ==
    \A n \in QueryNames : Registered(n) # {} =>
        LET got == GetModelPath(registry, store, n, "latest") IN
        /\ \A v1, v2 \in Registered(n) :
               StrLess(RegisteredAt(n, v1), RegisteredAt(n, v2))
                   => got # EntryOf(registry, n, v1).path
        /\ \A v \in Registered(n) :
               NewestOf(n, v) => got = IF DirExists(n, v) THEN PathOf(n, v) ELSE None
        /\ got # None =>
               \E v \in Registered(n) :
                   /\ got = PathOf(n, v)
                   /\ \A w \in Registered(n) :
                          ~StrLess(RegisteredAt(n, v), RegisteredAt(n, w))

\* a registration whose timestamp is later than that of every other version of
\* its name is the one "latest" resolves to
C1_MostRecent ==
    \A k \in RegKeys, in \in RegisterInputs :
        (/\ RegisterCall(k[1], k[2], in[1], in[2], "no")
         /\ \A v \in Registered(k[1]) \ {k[2]} :
                StrLess(RegisteredAt(k[1], v), IsoFormat(now)))
        => GetModelPath(registry', store', k[1], "latest") = PathOf(k[1], k[2])

\* C1: for every name, "latest" never resolves to a version whose registered_at
\* is less than another version's; it resolves to the version with the greatest
\* registered_at, which is the version of the most recent registration of the name.
C1_LatestResolution == []C1_ArgMax /\ [][C1_MostRecent]_vars

\* the first-registered version was registered again later: the index order and
\* the timestamp order disagree, and "latest" follows the timestamps
C1_Witness ==
    /\ Registered("m") = {"1.0", "1.1"}
    /\ LET versions == DictGet(registry, "m") IN
           /\ StrLess(versions[2][2].registered_at, versions[1][2].registered_at)
           /\ GetModelPath(registry, store, "m", "latest") = versions[1][2].path
           /\ DirExists("m", versions[2][1])

\* the version a lookup resolves to
Resolved(model_name, version) ==
    IF version = "latest"
    THEN LatestVersion(DictGet(registry, model_name))
    ELSE version

NotFoundCase(model_name, version) ==
    \/ ~DictHas(registry, model_name)
    \/ DictGet(registry, model_name) = EmptyDict
    \/ Resolved(model_name, version) \notin Registered(model_name)
    \/ ~DirExists(model_name, Resolved(model_name, version))

\* C2: get_model_path returns None exactly when the name is absent, the name
\* has no versions, the resolved version is absent, or the resolved entry's
\* directory does not exist; otherwise it returns the entry's recorded path.
C2_NotFoundCases ==
    \A n \in QueryNames, v \in QueryVersions :
        LET got == GetModelPath(registry, store, n, v) IN
        /\ got = None <=> NotFoundCase(n, v)
        /\ got # None => got = EntryOf(registry, n, Resolved(n, v)).path

\* a stale entry beside a live one, and a name that was never registered
C2_Witness ==
    /\ HasEntry(registry, "m", "1.0") /\ ~DirExists("m", "1.0")
    /\ HasEntry(registry, "m", "1.1") /\ DirExists("m", "1.1")
    /\ GetModelPath(registry, store, "m", "1.0") = None
    /\ GetModelPath(registry, store, "m", "1.1") = PathOf("m", "1.1")
    /\ GetModelPath(registry, store, "x", "latest") = None
    /\ GetModelPath(registry, store, "m", "9.9") = None

\* the index on disk is readable and holds what the instance holds in memory
InSync(reg, file) == file.state # "corrupt" /\ reg = LoadRegistry(file)

C3_FailedRegisterInvisible ==
    \A k \in RegKeys, in \in RegisterInputs, fail \in RegisterFailures \ {"no"} :
        RegisterCall(k[1], k[2], in[1], in[2], fail) =>
            /\ registry' = registry
            /\ GetModelPath(registry', store', k[1], k[2])
                   = GetModelPath(registry, store, k[1], k[2])
            /\ InSync(registry', index_file')

C3_ObservableMeansWritten ==
    \A k \in RegKeys : HasEntry(registry, k[1], k[2]) =>
        /\ store[PathOf(k[1], k[2])].dir = "complete"
        /\ index_file.state = "ok"
        /\ HasEntry(index_file.doc, k[1], k[2])
        /\ EntryOf(index_file.doc, k[1], k[2]) = EntryOf(registry, k[1], k[2])

\* C3: register_model is atomic for later reads: a registration of which a step
\* fails leaves no new or changed entry to be observed and leaves the registry
\* in memory equal to the persisted index; an entry is observable only when its
\* artifact, its metadata and the index update have all been written.
C3_RegisterAtomic == [][C3_FailedRegisterInvisible]_vars /\ []C3_ObservableMeansWritten

AllEntries == ListModels(registry, None)

EntryCount ==
    Cardinality({k \in QueryNames \X QueryVersions : HasEntry(registry, k[1], k[2])})

C4_KeysAndFields ==
    /\ \A i, j \in 1..Len(AllEntries) :
           (/\ AllEntries[i].model_name = AllEntries[j].model_name
            /\ AllEntries[i].version = AllEntries[j].version) => i = j
    /\ \A i, j \in 1..Len(registry) : registry[i][1] = registry[j][1] => i = j
    /\ Len(AllEntries) = EntryCount
    /\ \A n \in QueryNames, v \in QueryVersions : HasEntry(registry, n, v) =>
           LET e == EntryOf(registry, n, v) IN
           /\ e.model_id = n \o "_v" \o v
           /\ e.model_name = n
           /\ e.version = v
           /\ \E i \in 1..Len(AllEntries) : AllEntries[i] = e

C4_OverwriteReplaces ==
    \A k \in RegKeys, in \in RegisterInputs :
        RegisterCall(k[1], k[2], in[1], in[2], "no") =>
            /\ HasEntry(registry', k[1], k[2])
            /\ LET e == EntryOf(registry', k[1], k[2]) IN
                   /\ e.status = "active"
                   /\ e.stage = "none"
                   /\ e.registered_at = IsoFormat(now)
                   /\ e.metrics = (IF in[1] = SomeMetrics THEN SomeMetrics ELSE EmptyDoc)
            /\ Len(ListModels(registry', None))
                   = Len(AllEntries) + (IF HasEntry(registry, k[1], k[2]) THEN 0 ELSE 1)
            /\ \A k2 \in RegKeys \ {k} : HasEntry(registry, k2[1], k2[2]) =>
                   /\ HasEntry(registry', k2[1], k2[2])
                   /\ EntryOf(registry', k2[1], k2[2]) = EntryOf(registry, k2[1], k2[2])

\* C4: (model_name, version) is unique within the index; registering a pair that
\* exists overwrites its one entry; an entry's model_id, model_name and version
\* agree with the keys it is stored under; the overwrite replaces the whole entry
\* (status active, no stage, registered_at the time of the new registration).
C4_UniqueKeys == []C4_KeysAndFields /\ [][C4_OverwriteReplaces]_vars

\* an entry that was promoted or deleted and then registered again: it is first in
\* the index yet carries the later timestamp, and is active without a stage
C4_Witness ==
    /\ Len(AllEntries) = 2
    /\ StrLess(AllEntries[2].registered_at, AllEntries[1].registered_at)
    /\ AllEntries[1].status = "active" /\ AllEntries[1].stage = "none"
    /\ AllEntries[2].status = "deleted" /\ AllEntries[2].stage = "production"

C5_SoftDelete ==
    \A n \in QueryNames, v \in RegVersions :
        (DeleteCall(n, v) /\ HasEntry(registry, n, v)) =>
            /\ DeleteModel(registry, index_file, n, v, "no").ret = "True"
            /\ Len(registry') = Len(registry)
            /\ \A n2 \in QueryNames, v2 \in QueryVersions :
                   /\ HasEntry(registry', n2, v2) <=> HasEntry(registry, n2, v2)
                   /\ HasEntry(registry, n2, v2) =>
                          EntryOf(registry', n2, v2) =
                              IF n2 = n /\ v2 = v
                              THEN [EntryOf(registry, n2, v2) EXCEPT !.status = "deleted"]
                              ELSE EntryOf(registry, n2, v2)
            /\ store' = store

C5_NeverRemoved ==
    \A n \in QueryNames, v \in QueryVersions :
        HasEntry(registry, n, v) => HasEntry(registry', n, v)

C5_DeletedStillServed ==
    \A n \in QueryNames, v \in RegVersions :
        (HasEntry(registry, n, v) /\ EntryOf(registry, n, v).status = "deleted") =>
            LET e == EntryOf(registry, n, v) IN
            /\ \E i \in 1..Len(AllEntries) : AllEntries[i] = e
            /\ \E i \in 1..Len(ListModels(registry, n)) : ListModels(registry, n)[i] = e
            /\ GetModelInfo(registry, n, v) = ReturnedEntry(e)
            /\ DirExists(n, v) => GetModelPath(registry, store, n, v) = e.path
            /\ NewestOf(n, v) => GetModelInfo(registry, n, "latest") = ReturnedEntry(e)
            /\ (NewestOf(n, v) /\ DirExists(n, v)) =>
                   GetModelPath(registry, store, n, "latest") = e.path

\* C5: delete_model on an existing entry changes only that entry's status to
\* deleted and returns True; no operation removes a (name, version) key; the
\* deleted entry is still listed, still returned for its explicit version, and
\* still what "latest" resolves to when its registered_at is the greatest.
C5_DeleteIsSoft ==
    /\ [][C5_SoftDelete]_vars
    /\ [][C5_NeverRemoved]_vars
    /\ []C5_DeletedStillServed

\* the newest version of a name is deleted and "latest" still resolves to it
C5_Witness ==
    /\ HasEntry(registry, "m", "1.0") /\ HasEntry(registry, "m", "1.1")
    /\ EntryOf(registry, "m", "1.1").status = "deleted"
    /\ EntryOf(registry, "m", "1.0").status = "active"
    /\ NewestOf("m", "1.1")
    /\ DirExists("m", "1.0")
    /\ GetModelPath(registry, store, "m", "latest") = PathOf("m", "1.1")

-----------------------------------------------------------------------------
(* Properties of the trainer *)

\* the names of the models behind a sequence of handles
NamesOf(handles) == [i \in 1..Len(handles) |-> heap[handles[i]].model_name]

AllTrained(handles) == \A i \in 1..Len(handles) : heap[handles[i]].is_trained

\* the objects that existed before a step are as they were
HeapKept == Len(heap') >= Len(heap) /\ SubSeq(heap', 1, Len(heap)) = heap

C6_EmptyFailsStep ==
    (ensemble_config = <<>> /\ EnsembleBegin) =>
        /\ tpc' = "raised"
        /\ terr' = "ValueError"
        /\ heap' = heap
        /\ cache' = cache

C6_DefaultStep ==
    (ensemble_config = <<>> /\ EnsembleBegin) =>
        /\ tpc' = "ensemble"
        /\ ens'.names = <<"logistic_regression", "gradient_boosting", "neural_network">>
        /\ terr' = terr
        /\ heap' = heap
        /\ cache' = cache

C6_BareStep ==
    FitBareEnsemble =>
        /\ terr' = "ValueError"
        /\ Len(heap') = Len(heap) + 1
        /\ HeapKept
        /\ heap'[Len(heap')].fit_calls = 0
        /\ ~heap'[Len(heap')].is_trained
        /\ cache' = cache

C6_NeverBare == \A o \in FitOutcomes : EnsembleTrain(o) => ens.base_models # <<>>

C6_DefaultEnsemble ==
    /\ \A h \in 1..Len(heap) :
           (heap[h].model_name = "hybrid_ensemble" /\ heap[h].base_models = <<>>) =>
               (heap[h].fit_calls = 0 /\ ~heap[h].is_trained)
    /\ ensemble_config = <<>> =>
           \A h \in 1..Len(heap) :
               (heap[h].model_name = "hybrid_ensemble" /\ heap[h].fit_calls > 0) =>
                   NamesOf(heap[h].base_models) = DefaultBaseModels

C7_ResolveStep ==
    \A o \in FitOutcomes :
        EnsembleResolve(o) =>
            LET b == Head(ens.names) IN
            /\ HeapKept
            /\ IF DictHas(cache, b)
               THEN /\ heap' = heap
                    /\ cache' = cache
                    /\ tpc' = "ensemble"
                    /\ ens'.base_models = Append(ens.base_models, DictGet(cache, b))
               ELSE /\ b \in KnownModels =>
                           /\ Len(heap') = Len(heap) + 1
                           /\ heap'[Len(heap')].model_name = b
                           /\ heap'[Len(heap')].fit_calls = 1
                    /\ tpc' = "ensemble" =>
                           /\ b \in KnownModels
                           /\ heap'[Len(heap')].is_trained
                           /\ DictHas(cache', b)
                           /\ DictGet(cache', b) = Len(heap')
                           /\ ens'.base_models = Append(ens.base_models, Len(heap'))

\* the steps of _train_ensemble around the loop fit no base model
C7_OtherSteps ==
    /\ EnsembleBegin => heap' = heap
    /\ \A o \in FitOutcomes :
           EnsembleTrain(o) =>
               /\ HeapKept
               /\ Len(heap') = Len(heap) + 1
               /\ heap'[Len(heap')].model_name = "hybrid_ensemble"

\* C7: while the ensemble spec is resolved, a base model that is in the cache of
\* trained models is reused and no fit is invoked for it; a fit is invoked only
\* for a name absent from the cache, and the new handle is then put in the cache.
C7_NoRetrain == [][C7_ResolveStep]_vars /\ [][C7_OtherSteps]_vars

\* logistic_regression was trained by train_all_models before the ensemble and
\* the ensemble took that handle from the cache
C7_Witness ==
    /\ tpc = "ensemble"
    /\ DictHas(result, "logistic_regression")
    /\ ens.base_models = <<DictGet(result, "logistic_regression")>>
    /\ Cardinality({h \in 1..Len(heap) : heap[h].model_name = "logistic_regression"}) = 1

C8_FitStep ==
    \A o \in FitOutcomes :
        EnsembleTrain(o) =>
            LET names == EnsembleNames(ensemble_config) IN
            /\ Len(ens.base_models) = Len(names)
            /\ \A i \in 1..Len(names) :
                   /\ heap[ens.base_models[i]].model_name = names[i]
                   /\ heap[ens.base_models[i]].is_trained
                   /\ heap[ens.base_models[i]].fit_calls = 1
            /\ heap'[Len(heap')].model_name = "hybrid_ensemble"
            /\ heap'[Len(heap')].base_models = ens.base_models

C8_FittedEnsembles ==
    \A h \in 1..Len(heap) :
        (heap[h].model_name = "hybrid_ensemble" /\ heap[h].fit_calls > 0) =>
            /\ NamesOf(heap[h].base_models) = EnsembleNames(ensemble_config)
            /\ AllTrained(heap[h].base_models)
            /\ \A i \in 1..Len(heap[h].base_models) : heap[h].base_models[i] < h

\* C8: the ensemble's fit is invoked only after every base-model name of the
\* spec has resolved to a handle with is_trained = true, and the ensemble is
\* built over exactly those handles in the order of the spec's list of names.
C8_TrainBeforeCombine == [][C8_FitStep]_vars /\ []C8_FittedEnsembles

\* an ensemble fitted over a spec that names one base model twice
C8_Witness ==
    /\ ensemble_config = <<"gradient_boosting", "logistic_regression", "gradient_boosting">>
    /\ DictHas(cache, "hybrid_ensemble")
    /\ LET e == heap[DictGet(cache, "hybrid_ensemble")] IN
           /\ e.is_trained
           /\ Len(e.base_models) = 3
           /\ e.base_models[1] = e.base_models[3]

-----------------------------------------------------------------------------
(* Properties of the pipeline *)

\* a step of _train_ensemble's loop in which the training of a base model raises:
\* the name is unknown, or the object the step constructs is left untrained
BaseTrainingRaises ==
    /\ tpc = "ensemble" /\ ens.names # <<>>
    /\ \/ Head(ens.names) \notin KnownModels
       \/ Len(heap') > Len(heap) /\ ~heap'[Len(heap')].is_trained

C9_RaiseStep ==
    BaseTrainingRaises =>
        /\ tpc' = "raised" /\ terr' # "no"
        /\ cache' = cache /\ ens' = ens /\ result' = result /\ todo' = todo
        /\ HeapKept /\ Len(heap') <= Len(heap) + 1
        /\ \A h \in (Len(heap) + 1)..Len(heap') : heap'[h].model_name # "hybrid_ensemble"
        /\ registry' = registry /\ store' = store /\ index_file' = index_file

C9_AfterRaise ==
    tpc = "raised" =>
        /\ heap' = heap /\ cache' = cache /\ ens' = ens
        /\ registry' = registry /\ store' = store /\ index_file' = index_file
        /\ pl' = pl /\ registered' = registered
        /\ tpc' = "idle" /\ ppc' = "idle"
        /\ mode = "run" => run_result' = [state |-> "raised", stage |-> "train"]

C9_NoRegister ==
    run_result = [state |-> "raised", stage |-> "train"] => registered = <<>>

\* C9: when the training of a base model raises while the ensemble is being
\* resolved, the trainer is left raising at once with its cache, its result and
\* its list of resolved base models as they were and with no ensemble object
\* constructed; the step after it hands the exception to the caller without
\* training, caching or registering anything; and a run() that ended by an
\* exception of its training stage has made no register_model call.
C9_RaisePropagates ==
    /\ [][C9_RaiseStep]_vars
    /\ [][C9_AfterRaise]_vars
    /\ []C9_NoRegister

\* a run() that was to save its models has ended by the exception of the first of
\* two base models, with the second one never trained and nothing registered
C9_Witness ==
    /\ run_result = [state |-> "raised", stage |-> "train"] /\ run_save
    /\ terr = "fit" /\ Len(ens.names) = 2 /\ ens.base_models = <<>>
    /\ \E h \in 1..Len(heap) :
           heap[h].model_name = Head(ens.names) /\ ~heap[h].is_trained
    /\ \A h \in 1..Len(heap) : heap[h].model_name # ens.names[2]
    /\ ~DictHas(cache, "hybrid_ensemble")
    /\ registry = EmptyDict

\* the stages before a stage that is not optional
EarlierStages(stage) == {Stages[i] : i \in 1..(StageIndex(stage) - 1)}

C10_Ordered == \A stage \in completed : EarlierStages(stage) \subseteq completed

C10_RegisterStep ==
    (SaveModels /\ pl.has_models /\ pl.has_evaluation /\ pl.models # EmptyDict) =>
        /\ "evaluate" \in completed
        /\ \A model_name \in DictKeys(pl.models) : DictHas(pl.evaluation, model_name)

\* C10: the stages a run has completed are always an initial part of validate,
\* preprocess, split, select-features, train, evaluate, register, whether run()
\* or the caller invoked them, and save_models registers models only when
\* evaluate has completed in the run and has metrics for every trained model.
C10_StrictOrder == []C10_Ordered /\ [][C10_RegisterStep]_vars

C11_ProceedStep ==
    \A dataset \in Datasets :
        (dataset \cap validation_config # {} /\ LoadAndValidateCall(FALSE, "ok", dataset)) =>
            /\ ppc' = "preprocess"
            /\ run_result'.state = "running"
            /\ DictHas(pl'.validation, "overall_passed")
            /\ ~DictGet(pl'.validation, "overall_passed").passed
            /\ pl'.raw # 0

\* C11: when run() loads a dataset that fails at least one enabled data-quality
\* check, the validate stage returns: results["validation"] holds a result with
\* overall_passed = false, the dataset is stored, and run() goes on to the
\* preprocess stage.
C11_ValidateNonFatal == [][C11_ProceedStep]_vars

\* the stages whose exceptions the failure policy names
FatalStages == {"validate", "preprocess", "split", "features", "train"}

\* a step of run() in which the stage raises: its own work fails, or, for the
\* train stage, train_all_models has raised
C12_Raises(stage) ==
    CASE stage = "validate" ->
             \E outcome \in StageOutcomes, dataset \in Datasets :
                 /\ outcome = "raise" \/ Validate(validation_config, dataset).raised # "no"
                 /\ LoadAndValidateCall(FALSE, outcome, dataset)
      [] stage = "preprocess" -> PreprocessCall(FALSE, "raise")
      [] stage = "split" -> SplitCall(FALSE, "raise")
      [] stage = "features" -> FeaturesCall(FALSE, "raise") \/ FeaturesCall(FALSE, "raise_test")
      [] OTHER -> ppc = "training" /\ mode = "run" /\ tpc = "raised" /\ TrainModelsRaise

C12_FatalStep ==
    \A stage \in FatalStages :
        C12_Raises(stage) =>
            /\ ppc' = "idle" /\ mode' = "none"
            /\ run_result' = [state |-> "raised", stage |-> stage]
            /\ terr' = terr
            /\ registry' = registry /\ index_file' = index_file /\ store' = store
            /\ registered = <<>> /\ registered' = <<>>
            /\ heap' = heap /\ cache' = cache /\ loads' = loads
            /\ stage \notin completed'
            /\ pl'.has_models = pl.has_models /\ pl'.models = pl.models
            /\ pl'.has_evaluation = pl.has_evaluation /\ pl'.evaluation = pl.evaluation

C12_AfterFatal ==
    (run_result.state = "raised" /\ run_result.stage \in FatalStages) =>
        registered = <<>> /\ mode # "run" /\ ppc \in {"idle", "training"}

\* C12: when the validate, preprocess, split, select-features or train stage
\* raises inside run(), that step ends the run with the stage's exception: no
\* later stage is entered, nothing is loaded, trained, cached, evaluated or
\* registered by it, the registry and its index file are as they were, and a
\* run that ended this way has made no register_model call.
C12_FatalStages == [][C12_FatalStep]_vars /\ []C12_AfterFatal

\* a run() that was to save its models has ended by an exception of split_dataset
C12_Witness ==
    /\ run_result = [state |-> "raised", stage |-> "split"] /\ run_save
    /\ completed = {"validate", "preprocess"}
    /\ pl.pre # 0 /\ pl.split = 0
    /\ registry = EmptyDict /\ heap = <<>>

\* the model names save_models registered before the call for item fail_at
EarlierNames(p, fail_at) == [i \in 1..(fail_at - 1) |-> p.models[i][1]]

\* register_model itself failed, not the reading of an attribute before it
RegisterFailed(s) == s.raised \in PipelineFailures

C13_FailedStep ==
    \A direct \in BOOLEAN, fail_at \in 1..2, fail \in PipelineFailures :
        (SaveModelsCall(direct, fail_at, fail) /\ RegisterFailed(SaveResult(pl, fail_at, fail))) =>
            /\ ~direct => run_result' = [state |-> "raised", stage |-> "register"]
            /\ ppc' = "idle"
            /\ ~direct => registered' = registered \o EarlierNames(pl, fail_at + 1)
            /\ \A i \in 1..(fail_at - 1) :
                   LET model_name == EarlierNames(pl, fail_at)[i] IN
                   /\ HasEntry(registry', model_name, RunVersion)
                   /\ EntryOf(registry', model_name, RunVersion)
                          = NewEntry(model_name, RunVersion,
                                     MetricsFor(pl.evaluation, model_name), RunMetadata, now)
                   /\ store'[PathOf(model_name, RunVersion)].dir = "complete"
                   /\ fail # "index_dump" =>
                          /\ index_file'.state = "ok"
                          /\ HasEntry(LoadRegistry(index_file'), model_name, RunVersion)

C13_RunReported ==
    (run_result = [state |-> "raised", stage |-> "register"] /\ ppc = "idle"
        /\ direct_calls = 0 /\ Len(registered) > 1) =>
        \A i \in 1..(Len(registered) - 1) :
            /\ HasEntry(registry, registered[i], RunVersion)
            /\ store[PathOf(registered[i], RunVersion)].dir = "complete"

C14_RunScopedCache ==
    \A h \in 1..Len(heap) :
        (h > run_heap /\ heap[h].model_name = "hybrid_ensemble") =>
            \A i \in 1..Len(heap[h].base_models) : heap[h].base_models[i] > run_heap

-----------------------------------------------------------------------------
(* Properties of the inference pipeline *)

Range(seq) == {seq[i] : i \in 1..Len(seq)}

\* the names under which an input carries values: the keys of its mappings,
\* the columns of its table
NamesIn(data) ==
    IF data.kind = "frame" THEN Range(data.columns)
    ELSE UNION {DictKeys(data.records[r]) : r \in 1..Len(data.records)}

RowCount(data) == IF data.kind = "list" \/ data.kind = "dict" THEN Len(data.records)
                  ELSE Len(data.rows)

\* the value an input carries in a row under a name
CellOf(data, r, f) ==
    IF data.kind = "frame"
    THEN data.rows[r][CHOOSE j \in 1..Len(data.columns) : data.columns[j] = f]
    ELSE IF DictHas(data.records[r], f) THEN DictGet(data.records[r], f) ELSE NaN

PositionIn(seq, x) == CHOOSE i \in 1..Len(seq) : seq[i] = x

\* C15: prepare_input on a mapping, a sequence of mappings or a table: if
\* some feature of the contract is carried nowhere in the input, it raises a
\* ValueError whose list holds every such feature and no other, each once, in
\* the order of the contract; otherwise it returns one row per row of the
\* input whose j-th cell is the value the input carries under the j-th
\* feature of the contract, whatever the order of the input's own names and
\* whatever other names it carries.
C15_MissingReported ==
    (call.op = "prepare_input" /\ call.data.kind # "ndarray") =>
        LET absent == {f \in Range(features) : f \notin NamesIn(call.data)} IN
        IF absent # {}
        THEN /\ call.state = "raised"
             /\ call.error = "ValueError"
             /\ Range(call.missing) = absent
             /\ \A i \in 1..Len(call.missing) : \A j \in 1..Len(call.missing) :
                    i < j => PositionIn(features, call.missing[i])
                                 < PositionIn(features, call.missing[j])
        ELSE /\ call.state = "returned"
             /\ Len(call.value) = RowCount(call.data)
             /\ \A r \in 1..Len(call.value) :
                    /\ Len(call.value[r]) = Len(features)
                    /\ \A j \in 1..Len(features) :
                           call.value[r][j] = CellOf(call.data, r, features[j])

\* prepare_input has raised on an input that carries one feature of the
\* contract and lacks two, the first of the contract among them
C15_Witness ==
    /\ call.op = "prepare_input"
    /\ call.state = "raised"
    /\ Len(call.missing) = 2
    /\ Len(features) = 3
    /\ call.missing[1] = features[1]

\* the predictions a call has returned, with or without probabilities
PredictionsOf(c) == IF c.arguments.return_proba THEN c.value.predictions ELSE c.value

\* the chunks range(0, n, batch_size) cuts a matrix into
ChunksOf(X, batch_size) ==
    [k \in 1..((Len(X) + batch_size - 1) \div batch_size) |->
        Slice(X, (k - 1) * batch_size, batch_size)]

\* C16: batch_predict returns what predict returns on the whole matrix,
\* whatever the batch size: one prediction per row, in the order of the rows,
\* each the classifier's label of that row; every other batch size gives the
\* same array; the chunks, put end to end, are the matrix.  On a matrix the
\* classifier rejects (no row, or a NaN cell) both calls raise.
C16_ChunkingInvariant ==
    (call.op = "batch_predict" /\ PrepareInput(features, call.data).state = "returned") =>
        LET X      == PrepareInput(features, call.data).value
            whole  == Predict(predictor, X)
        IN  /\ call.state = whole.state
            /\ call.error = whole.error
            /\ \A b \in BatchSizes :
                   /\ Flatten(ChunksOf(X, b)) = X
                   /\ BatchPredict(predictor, X, b).state = call.state
            /\ call.state = "returned" =>
                   /\ PredictionsOf(call) = whole.value
                   /\ Len(PredictionsOf(call)) = Len(X)
                   /\ \A r \in 1..Len(X) :
                          PredictionsOf(call)[r] = predictor.label[RowKey(X[r])]
                   /\ \A b \in BatchSizes :
                          BatchPredict(predictor, X, b).value = PredictionsOf(call)

\* batch_predict has returned on a matrix it cut into more than one chunk and
\* whose rows the classifier labels differently
C16_Witness ==
    /\ call.op = "batch_predict"
    /\ call.state = "returned"
    /\ RowCount(call.data) > call.arguments.batch_size
    /\ PredictionsOf(call)[1] # PredictionsOf(call)[2]

\* the matrix a call has handed to the predictor
MatrixOf(c) == PrepareInput(features, c.data).value

\* the calls of predict_with_confidence that have returned
Scored(c) == c.op = "predict_with_confidence" /\ c.state = "returned"

\* C17: predict_with_confidence takes the class from the probabilities: the
\* prediction of a row is 1 when the probability of the positive class is at
\* least the threshold and 0 otherwise, whatever class the classifier's own
\* predict gives the row.
C17_ThresholdDecides ==
    Scored(call) =>
        /\ Len(call.value.predictions) = Len(MatrixOf(call))
        /\ \A r \in 1..Len(MatrixOf(call)) :
               LET positive == predictor.proba[RowKey(MatrixOf(call)[r])] IN
               /\ call.value.predictions[r] \in {0, 1}
               /\ call.value.predictions[r] = 1 <=> positive >= call.arguments.threshold

\* predict_with_confidence has returned, at the default threshold, a
\* prediction that is not the class the classifier's predict gives the row
C17_Witness ==
    /\ Scored(call)
    /\ call.arguments.threshold = DefaultThreshold
    /\ \E r \in 1..Len(MatrixOf(call)) :
           call.value.predictions[r] # predictor.label[RowKey(MatrixOf(call)[r])]

\* C18: predict_with_confidence returns as the confidence of a row the
\* greater of the row's two class probabilities, at every threshold and
\* whichever class it predicts, and as the positive-class probability the
\* second column of the probabilities it returns.
C18_ConfidenceIsMax ==
    Scored(call) =>
        /\ Len(call.value.confidence) = Len(call.value.probabilities)
        /\ Len(call.value.positive_proba) = Len(call.value.probabilities)
        /\ Len(call.value.probabilities) = Len(MatrixOf(call))
        /\ \A r \in 1..Len(call.value.probabilities) :
               LET row == call.value.probabilities[r] IN
               /\ row = <<ProbaScale - predictor.proba[RowKey(MatrixOf(call)[r])],
                          predictor.proba[RowKey(MatrixOf(call)[r])]>>
               /\ call.value.confidence[r] \in {row[1], row[2]}
               /\ call.value.confidence[r] >= row[1]
               /\ call.value.confidence[r] >= row[2]
               /\ call.value.positive_proba[r] = row[2]

\* predict_with_confidence has returned a row whose confidence is above the
\* probability of the class predicted for it
C18_Witness ==
    /\ Scored(call)
    /\ \E r \in 1..Len(call.value.probabilities) :
           call.value.confidence[r]
               > call.value.probabilities[r][call.value.predictions[r] + 1]

\* the registry instance knows no version of the name
UnknownName(reg, model_name) ==
    ~DictHas(reg, model_name) \/ DictGet(reg, model_name) = EmptyDict

\* the version the instance resolves the lookup to
ResolvedIn(reg, model_name, version) ==
    IF version = "latest" THEN LatestVersion(DictGet(reg, model_name)) ELSE version

UnknownVersion(reg, model_name, version) ==
    /\ ~UnknownName(reg, model_name)
    /\ ~HasEntry(reg, model_name, ResolvedIn(reg, model_name, version))

\* the entry is there and the directory it names is not
StalePath(reg, st, model_name, version) ==
    /\ ~UnknownName(reg, model_name)
    /\ HasEntry(reg, model_name, ResolvedIn(reg, model_name, version))
    /\ st[EntryOf(reg, model_name, ResolvedIn(reg, model_name, version)).path].dir = "none"

LookupFails(reg, st, model_name, version) ==
    \/ UnknownName(reg, model_name)
    \/ UnknownVersion(reg, model_name, version)
    \/ StalePath(reg, st, model_name, version)

LookupOps == {"construct", "load_model_from_registry"}

ServingOps == {"predict", "predict_with_confidence", "batch_predict"}

C19_ConstructStep ==
    \A model_name \in QueryNames, version \in QueryVersions, unpickled \in Classifiers :
        (/\ ConstructCall(model_name, version, unpickled)
         /\ LookupFails(LoadRegistry(index_file), store, model_name, version))
            => /\ call'.state = "raised"
               /\ call'.error = "FileNotFoundError"
               /\ predictor' = NoModel
               /\ ipc' = "failed"

C19_ReloadStep ==
    \A model_name \in QueryNames, version \in QueryVersions, unpickled \in Classifiers :
        (/\ ReloadCall(model_name, version, unpickled)
         /\ LookupFails(peer, store, model_name, version))
            => /\ call'.state = "raised"
               /\ call'.error = "FileNotFoundError"
               /\ predictor' = predictor

C19_FailedStep == ipc = "failed" => (ipc' = "failed" /\ predictor' = NoModel /\ call' = call)

\* C19: a lookup that the registry of the inference pipeline cannot resolve
\* (unknown name, unknown version, stale path) raises FileNotFoundError and
\* loads no model.  In the constructor the pipeline then does not come to
\* exist and serves nothing, ever; in load_model_from_registry, called on a
\* pipeline that exists, the predictor keeps the model it held.
C19_NotFoundSurfaces == [][C19_ConstructStep /\ C19_ReloadStep /\ C19_FailedStep]_vars

\* load_model_from_registry has raised on a stale path and the pipeline still
\* holds the model it was constructed with
C19_Witness ==
    /\ call.op = "load_model_from_registry"
    /\ call.state = "raised"
    /\ StalePath(peer, store, call.arguments.model_name, call.arguments.version)
    /\ predictor # NoModel
    /\ ipc = "ready"

\* C19 as stated: after a lookup that raised not-found, in the constructor or
\* in load_model_from_registry, the pipeline serves no prediction
C19_NothingServed ==
    [][(call.op \in LookupOps /\ call.state = "raised")
           => ~(call'.op \in ServingOps /\ call'.state = "returned")]_vars

-----------------------------------------------------------------------------
(* Properties of two registry instances over one root *)

\* the (name, version) keys an index holds
KeysIn(reg) == {k \in RegKeys : HasEntry(reg, k[1], k[2])}

\* a call on the first instance that writes the index leaves on disk what
\* that instance holds in memory
C20_OwnWriteStep ==
    \A k \in RegKeys :
        /\ RegisterCall(k[1], k[2], None, None, "no") => index_file' = FileOf(registry')
        /\ (DeleteCall(k[1], k[2]) /\ HasEntry(registry, k[1], k[2]))
               => index_file' = FileOf(registry')
        /\ \A stage \in StageInputs :
               (PromoteCall(k[1], k[2], stage) /\ HasEntry(registry, k[1], k[2]))
                   => index_file' = FileOf(registry')

\* and so does a call on the second instance
C20_PeerWriteStep ==
    \A k \in RegKeys :
        /\ PeerRegisterCall(k[1], k[2]) => index_file' = FileOf(peer')
        /\ (PeerDeleteCall(k[1], k[2]) /\ HasEntry(peer, k[1], k[2]))
               => index_file' = FileOf(peer')
        /\ \A stage \in StageInputs :
               (PeerPromoteCall(k[1], k[2], stage) /\ HasEntry(peer, k[1], k[2]))
                   => index_file' = FileOf(peer')

\* no call takes an entry out of the memory of the instance it is called on,
\* or changes the memory of the other instance
C20_MemoryStep ==
    /\ KeysIn(registry) \subseteq KeysIn(registry')
    /\ KeysIn(peer) \subseteq KeysIn(peer')
    /\ registry' = registry \/ peer' = peer

\* an instance holds no entry as long as it has written nothing; while one of
\* the two has written nothing, the index on disk is what the other holds
C20_SingleWriter ==
    /\ KeysIn(peer) = {} => registry = LoadRegistry(index_file)
    /\ KeysIn(registry) = {} => peer = LoadRegistry(index_file)

\* C20: every write of the index puts on disk the in-memory index of the
\* instance that writes, whatever the other instance wrote before (last
\* writer wins, nothing is merged); while a single instance writes, the index
\* on disk is that instance's and holds every entry it registered.
C20_LastWriterWins ==
    /\ [][C20_OwnWriteStep /\ C20_PeerWriteStep /\ C20_MemoryStep]_vars
    /\ []C20_SingleWriter

\* an entry one instance registered, and still holds, is gone from the index
\* on disk, which is the other instance's
C20_Witness ==
    /\ HasEntry(registry, "m", "1.0")
    /\ index_file = FileOf(peer)
    /\ HasEntry(peer, "m", "1.1")
    /\ ~HasEntry(LoadRegistry(index_file), "m", "1.0")

-----------------------------------------------------------------------------
(* Further properties of the registry *)

\* C21: get_model_info resolves as get_model_path does: it returns None,
\* and does not raise, when the name is absent, the name has no versions or
\* the resolved version is absent, and otherwise the entry of the version
\* get_model_path resolves ("latest" being the newest registered_at).
C21_SameResolution ==
    \A n \in QueryNames, v \in QueryVersions :
        LET info == GetModelInfo(registry, n, v) IN
        /\ info.raised = "no"
        /\ IF ~DictHas(registry, n) THEN info = ReturnedNone
           ELSE IF DictGet(registry, n) = EmptyDict THEN info = ReturnedNone
           ELSE IF Resolved(n, v) \notin Registered(n) THEN info = ReturnedNone
           ELSE info = ReturnedEntry(EntryOf(registry, n, Resolved(n, v)))

C24_PromoteStep ==
    \A n \in QueryNames, v \in RegVersions, stage \in StageInputs :
        PromoteCall(n, v, stage) =>
            IF HasEntry(registry, n, v)
            THEN /\ PromoteModel(registry, index_file, n, v, stage, "no").ret = "True"
                 /\ Len(registry') = Len(registry)
                 /\ \A n2 \in QueryNames, v2 \in QueryVersions :
                        /\ HasEntry(registry', n2, v2) <=> HasEntry(registry, n2, v2)
                        /\ HasEntry(registry, n2, v2) =>
                               EntryOf(registry', n2, v2) =
                                   IF n2 = n /\ v2 = v
                                   THEN [EntryOf(registry, n2, v2) EXCEPT !.stage = stage]
                                   ELSE EntryOf(registry, n2, v2)
                 /\ index_file' = FileOf(registry')
            ELSE /\ PromoteModel(registry, index_file, n, v, stage, "no").ret = "False"
                 /\ registry' = registry
                 /\ index_file' = index_file

\* C24: promote_model on an existing entry sets the stage of that entry,
\* returns True and leaves every other field of it and every other entry as
\* it was, whatever stage the other versions of the name hold; on an unknown
\* name or version it returns False and writes nothing, in memory or on disk.
C24_PromoteSetsStage == [][C24_PromoteStep]_vars

\* two versions of one name hold the same stage
C24_Witness ==
    /\ HasEntry(registry, "m", "1.0") /\ HasEntry(registry, "m", "1.1")
    /\ EntryOf(registry, "m", "1.0").stage = "production"
    /\ EntryOf(registry, "m", "1.1").stage = "production"
    /\ index_file = FileOf(registry)

-----------------------------------------------------------------------------
(* Further properties of the pipeline *)

\* the entry the registry holds for a model of the run
RunEntry(reg, model_name) == EntryOf(reg, model_name, RunVersion)

\* run() returns, having been called with save_models enabled
C22_SavedStep ==
    (RunFinish /\ run_result'.state = "returned" /\ run_save) =>
        \A i \in 1..Len(pl.models) :
            LET model_name == pl.models[i][1]
                handle     == pl.models[i][2]
            IN  /\ HasEntry(registry', model_name, RunVersion)
                /\ RunEntry(registry', model_name).metrics = MetricsOf(handle)
                /\ DictGet(pl.evaluation, model_name) = handle
                /\ RunEntry(registry', model_name).metadata = RunMetadata \o ModelKeys
                /\ RunEntry(registry', model_name).model_name = model_name
                /\ HasEntry(LoadRegistry(index_file'), model_name, RunVersion)

\* a step of a run() that was called with save_models disabled
C22_UnsavedStep ==
    /\ (\E save \in BOOLEAN : RunCall(save)) => UNCHANGED regvars
    /\ (ppc # "idle" /\ mode # "direct" /\ ~run_save) =>
           (UNCHANGED <<registry, index_file, store>> /\ registered' = <<>>)

\* C22: when a run() with save_models enabled returns, the registry holds,
\* for every model trained in the run, an entry under the run's version whose
\* metrics are the metrics the evaluate stage computed for that model object
\* and whose metadata is the run metadata (feature count, training and test
\* sample counts); a run() with save_models disabled calls register_model
\* never and leaves the index and the artifact store as they were.
C22_RunRegisters == [][C22_SavedStep /\ C22_UnsavedStep]_vars

\* a run() with save_models enabled has returned with two models registered,
\* each with its own metrics
C22_Witness ==
    /\ run_result.state = "returned"
    /\ run_save
    /\ ppc = "idle"
    /\ Len(pl.models) = 2
    /\ HasEntry(registry, pl.models[1][1], RunVersion)
    /\ HasEntry(registry, pl.models[2][1], RunVersion)
    /\ RunEntry(registry, pl.models[1][1]).metrics # RunEntry(registry, pl.models[2][1]).metrics

-----------------------------------------------------------------------------
(* Properties of the evaluator *)

ScoreAt(c, i) == MetricsAt(c.accuracies[i])[c.metric]

\* C23: get_best_model returns a name of the mapping whose value of the
\* metric no other model of the mapping exceeds, with the handle the mapping
\* holds under that name and the metrics of that model; of several models
\* that reach the greatest value it returns the first in the iteration order
\* of the mapping.
C23_BestIsFirstMax ==
    (compared.state = "returned") =>
        \E i \in 1..Len(compared.models) :
            /\ compared.best_name = compared.models[i][1]
            /\ compared.best_model = compared.models[i][2]
            /\ compared.best_metrics = MetricsAt(compared.accuracies[i])
            /\ \A j \in 1..Len(compared.models) : ScoreAt(compared, j) <= ScoreAt(compared, i)
            /\ \A j \in 1..(i - 1) : ScoreAt(compared, j) < ScoreAt(compared, i)

\* get_best_model has returned the second of three models, the third
\* reaching the same accuracy
C23_Witness ==
    /\ compared.state = "returned"
    /\ compared.metric = "accuracy"
    /\ Len(compared.models) = 3
    /\ compared.best_name = compared.models[2][1]
    /\ compared.accuracies[3] = compared.accuracies[2]

-----------------------------------------------------------------------------
(* Further properties of inference *)

\* the keys of a result, in the order they were set
KeysOf(d) == [i \in 1..Len(d) |-> d[i][1]]

\* the mapping carries every feature of the contract
ValidMapping ==
    /\ call.data.kind = "dict"
    /\ \A j \in 1..Len(features) : DictHas(call.data.records[1], features[j])

\* C25: for a mapping that carries every feature, predict_single returns
\* prediction 0 or 1, diagnosis "Malignant" with 1 and "Benign" with 0, the
\* confidence, and probability_benign and probability_malignant exactly when
\* return_proba is true.
C25_SingleShape ==
    (call.op = "predict_single" /\ ValidMapping) =>
        /\ call.state = "returned"
        /\ KeysOf(call.value) =
               IF call.arguments.return_proba
               THEN <<"prediction", "diagnosis", "confidence",
                      "probability_benign", "probability_malignant">>
               ELSE <<"prediction", "diagnosis", "confidence">>
        /\ DictGet(call.value, "prediction") \in {0, 1}
        /\ DictGet(call.value, "diagnosis") \in {"Malignant", "Benign"}
        /\ DictGet(call.value, "diagnosis") = "Malignant"
               <=> DictGet(call.value, "prediction") = 1
        /\ DictGet(call.value, "diagnosis") = "Benign"
               <=> DictGet(call.value, "prediction") = 0
        /\ DictGet(call.value, "confidence") \in 0..ProbaScale

\* a malignant diagnosis returned without the probabilities
C25_Witness ==
    /\ call.op = "predict_single"
    /\ ValidMapping
    /\ call.state = "returned"
    /\ ~call.arguments.return_proba
    /\ DictGet(call.value, "diagnosis") = "Malignant"
    /\ Len(call.value) = 3

-----------------------------------------------------------------------------
(* Properties of the model objects *)

\* save leaves the pickled estimator and the metadata document, in two files
C26_SaveStep ==
    \A name \in ObjectNames :
        SaveCall(name) =>
            /\ DictKeys(save_dir') = {"model.pkl", "metadata.json"}
            /\ DictGet(save_dir', "model.pkl") = Pickle(objects[name].model)
            /\ DictGet(save_dir', "metadata.json") = MetadataDocument(objects[name])

\* the directory holds what the trained object g saved
SavedBy(g) ==
    /\ objects[g].is_trained
    /\ DictHas(save_dir, "model.pkl")
    /\ DictGet(save_dir, "model.pkl") = Pickle(objects[g].model)

\* load from the directory a trained object saved to gives an object that is
\* trained and predicts as the saved one, on every batch
C26_LoadStep ==
    \A name \in ObjectNames, g \in ObjectNames :
        (LoadCall(name) /\ SavedBy(g)) =>
            /\ answer'.state = "returned"
            /\ objects'[name].is_trained
            /\ \A X \in Batches :
                   /\ BasePredict(objects'[name], X) = BasePredict(objects[g], X)
                   /\ BasePredictProba(objects'[name], X) = BasePredictProba(objects[g], X)

-----------------------------------------------------------------------------
(* Properties of the API and of the layers below it *)

\* predict and predict_proba of a model object that is not trained raise
C27_ModelStep ==
    \A name \in DOMAIN objects :
        (/\ ModelPredictCall(name) \/ ModelPredictProbaCall(name)
         /\ ~objects[name].is_trained)
            => /\ answer'.state = "raised"
               /\ answer'.error = "ValueError"

\* predict, predict_proba and batch_predict of a ModelPredictor without a
\* model raise
C27_PredictorStep ==
    (\/ PredictorPredictCall(NoModel)
     \/ PredictorPredictProbaCall(NoModel)
     \/ \E batch_size \in BatchSizes : PredictorBatchPredictCall(NoModel, batch_size))
        => /\ answer'.state = "raised"
           /\ answer'.error = "ValueError"

\* without an inference pipeline the three endpoints answer 503 and call nothing
C27_EndpointStep ==
    (/\ HealthCheck \/ ApiPredictStep \/ ApiBatchPredictStep
     /\ ipc # "ready")
        => /\ response'.status_code = 503
           /\ call' = call
           /\ answer' = answer
           /\ predictor' = predictor

\* /health answers 200 only with a pipeline that has loaded its model
C27_HealthStep ==
    (HealthCheck /\ response'.status_code = 200) => (ipc = "ready" /\ predictor \in Classifiers)

-----------------------------------------------------------------------------
(* Properties of the pinned model *)

\* the model a constructed pipeline answers with
ServedModel == [model |-> predictor, index |-> peer, state |-> ipc]

C28_ConstructStep ==
    \A model_name \in QueryNames, version \in QueryVersions, unpickled \in Classifiers :
        (ConstructCall(model_name, version, unpickled) /\ ipc' = "ready") =>
            /\ peer' = LoadRegistry(index_file)
            /\ GetModelPath(peer', store, model_name, version) # None
            /\ predictor' = unpickled

C28_PinnedStep == ipc = "ready" => ServedModel' = ServedModel

\* a step of register_model, delete_model or promote_model that writes
C28_WriteStep ==
    (registry' # registry \/ index_file' # index_file \/ store' # store)
        => ServedModel' = ServedModel

\* C28: the constructor resolves (name, version) against the index as it is
\* on disk at that moment and loads the model; from then on the pipeline
\* holds that model and that index, whatever is registered, deleted or
\* promoted, and whatever it is asked to predict.
C28_Pinned == [][C28_ConstructStep /\ C28_PinnedStep /\ C28_WriteStep]_vars

\* the pipeline resolved "latest" when "m" had version 1.0 only; version 1.1
\* was registered and 1.0 deleted since, and the pipeline has answered
C28_Witness ==
    /\ ipc = "ready"
    /\ predictor \in Classifiers
    /\ HasEntry(peer, "m", "1.0") /\ ~HasEntry(peer, "m", "1.1")
    /\ HasEntry(registry, "m", "1.1")
    /\ EntryOf(registry, "m", "1.0").status = "deleted"
    /\ call.op = "predict_single"
    /\ call.state = "returned"

-----------------------------------------------------------------------------
(* Properties of the index on disk *)

\* what a ModelRegistry constructed now on the same root holds
NewInstance == LoadRegistry(index_file)

\* a call that has written leaves the index as the document of the registry
C29_WrittenStep ==
    (registry' # registry \/ index_file' # index_file) => index_file' = FileOf(registry')

\* after any call a new instance holds the entries the writer holds
C29_SameEntriesStep ==
    /\ index_file'.state # "corrupt"
    /\ NewInstance' = registry'
    /\ \A k \in RegKeys :
           /\ HasEntry(NewInstance', k[1], k[2]) <=> HasEntry(registry', k[1], k[2])
           /\ HasEntry(registry', k[1], k[2]) =>
                  EntryOf(NewInstance', k[1], k[2]) = EntryOf(registry', k[1], k[2])

\* the reads change neither the registry nor the index nor the directories
C29_ReadStep ==
    (answer' # answer) => (registry' = registry /\ index_file' = index_file /\ store' = store)

\* C29: with one writer, after every register_model, delete_model or
\* promote_model that returns, the index on disk is the document of the
\* registry in memory, and a ModelRegistry constructed then on the same root
\* holds the same entries, field by field; get_model_path, get_model_info
\* and list_models change neither.
C29_IndexInSync == [][C29_WrittenStep /\ C29_SameEntriesStep /\ C29_ReadStep]_vars

\* after a register, a delete and a promote the index holds both changes,
\* and a read has left it so
C29_Witness ==
    /\ HasEntry(NewInstance, "m", "1.0") /\ HasEntry(NewInstance, "m", "1.1")
    /\ EntryOf(NewInstance, "m", "1.0").status = "deleted"
    /\ EntryOf(NewInstance, "m", "1.1").stage = "production"
    /\ EntryOf(NewInstance, "m", "1.1").status # "deleted"
    /\ NewInstance = registry
    /\ answer.op = "list_models"

-----------------------------------------------------------------------------
(* Further properties of the trainer *)

\* the base models of the ensemble that train_all_models returns
ReturnedBases == heap[DictGet(result, "hybrid_ensemble")].base_models

\* C30: when train_all_models has returned, whatever the order of the names
\* it was given, every base model of the ensemble it returns that is also
\* returned under its own name is the one object: the ensemble was built
\* over the handle that is returned, and that model was fitted once.
C30_OneHandlePerBase ==
    (tpc = "returned" /\ DictHas(result, "hybrid_ensemble")) =>
        \A i \in 1..Len(ReturnedBases) :
            LET b == heap[ReturnedBases[i]].model_name IN
            DictHas(result, b) =>
                /\ DictGet(result, b) = ReturnedBases[i]
                /\ heap[DictGet(result, b)].fit_calls = 1

====
